---- MODULE Spec2Model ----
(***************************************************************************)
(* A model of the audio utilities (decode, decodeAudioData, playAudio,     *)
(* writeString, createWavBlob) of the SSML / TTS front-end.                *)
(*                                                                         *)
(* Representation.                                                         *)
(*   - a string is a sequence of one-character strings;                    *)
(*   - a Uint8Array / ArrayBuffer is a sequence of numbers 0..255, the     *)
(*     byte at offset k being element k+1;                                 *)
(*   - a Float32 sample is the exact rational [num, den] (every value      *)
(*     s/32768 with s a 16-bit integer is exactly representable);          *)
(*   - the value of an expression that may throw is Ok(v) or Err(name).    *)
(* Typed-array views use the byte order of the host; every host that runs  *)
(* this front-end is little-endian, and the view is modelled so.           *)
(***************************************************************************)
EXTENDS Integers, Sequences, FiniteSets, TLC

VARIABLES
    \* one createWavBlob call
    wavInput,            \* base64Audio, the argument
    wavResult,           \* Unset, Ok(blob) or Err(name)
    \* one decodeAudioData call
    decData,             \* data: Uint8Array
    decChannels,         \* numChannels
    decResult,           \* Unset, Ok(AudioBuffer) or Err(name)
    \* the host and the playAudio invocations
    hasAudioContext,     \* window.AudioContext || window.webkitAudioContext
    pc,                  \* position of each invocation
    base64Audio,         \* argument of each invocation
    outputAudioContext,  \* whether the invocation constructed its context
    decodedBytes,        \* Unset or Ok(bytes)
    dataInt16,           \* Unset or Ok(samples): the Int16Array view
    audioBuffer,         \* Unset or Ok(AudioBuffer)
    source,              \* the AudioBufferSourceNode of the invocation
    error,               \* Unset or Err(name): what the promise rejected with
    steps,               \* the steps the invocation has performed, in order
    \* the App component
    app,                 \* its React state, a record with a field for each useState
    playReqs,            \* the runs of handlePlayAudio / handlePlayVoiceSample
    ssmlReqs,            \* the runs of handleGenerateSSML
    timeouts,            \* the pending setTimeout(() => setError(null)), oldest first
    clicks,              \* the number of user events so far
    apiKey,              \* whether process.env.API_KEY is set
    researchReqs,        \* the runs of handleAiResearch
    detectReqs,          \* the detectLanguage calls of the debounce effect
    debounceTimeout,     \* debounceTimeout.current: null or the pending timer
    VOICES,              \* the voice profiles the balanced list is made of
    balanced             \* Unset or Ok(balancedVoices), the memoized list

wavVars == <<wavInput, wavResult>>
decVars == <<decData, decChannels, decResult>>
playVars == <<hasAudioContext, pc, base64Audio, outputAudioContext, decodedBytes,
              dataInt16, audioBuffer, source, error, steps>>
svcVars == <<apiKey, researchReqs, detectReqs, debounceTimeout>>
voiceVars == <<VOICES, balanced>>
appVars == <<app, playReqs, ssmlReqs, timeouts, clicks, svcVars, voiceVars>>
vars == <<wavVars, decVars, playVars, appVars>>

----------------------------------------------------------------------------
(* Bounds of the model *)

\* longest PCM payload, in whole 16-bit samples, given to createWavBlob
MaxSamples == 2
\* longest PCM payload, in whole 16-bit samples, given to decodeAudioData
MaxDecSamples == 4
\* largest channel count given to decodeAudioData
MaxChannels == 2
\* longest PCM payload, in whole 16-bit samples, given to a playAudio invocation
MaxPlaySamples == 1
\* longest list of voice profiles the balanced list is made of
MaxVoices == 5

----------------------------------------------------------------------------
(* Values *)

Unset == [tag |-> "unset"]
Ok(v) == [tag |-> "ok", val |-> v]
Err(name) == [tag |-> "error", name |-> name]
IsOk(r) == r.tag = "ok"
IsErr(r) == r.tag = "error"

\* the sequence of n copies of v
Fill(n, v) == [i \in 1..n |-> v]

RECURSIVE Flatten(_)
Flatten(ss) == IF ss = <<>> THEN <<>> ELSE Head(ss) \o Flatten(Tail(ss))

\* all sequences over S of length at most n
SeqsUpTo(S, n) == UNION {[1..k -> S] : k \in 0..n}

----------------------------------------------------------------------------
(* Strings: String.prototype.charCodeAt for the characters the code writes *)

CharCodes ==
    [ch \in {"R", "I", "F", "W", "A", "V", "E", "f", "m", "t", " ", "d", "a"} |->
        CASE ch = "R" -> 82  [] ch = "I" -> 73  [] ch = "F" -> 70  [] ch = "W" -> 87
          [] ch = "A" -> 65  [] ch = "V" -> 86  [] ch = "E" -> 69  [] ch = "f" -> 102
          [] ch = "m" -> 109 [] ch = "t" -> 116 [] ch = " " -> 32  [] ch = "d" -> 100
          [] ch = "a" -> 97]

charCodeAt(string, i) == CharCodes[string[i + 1]]

----------------------------------------------------------------------------
(* atob: the platform's forgiving-base64 decode *)

B64Alphabet ==
    << "A", "B", "C", "D", "E", "F", "G", "H", "I", "J", "K", "L", "M", "N", "O", "P",
       "Q", "R", "S", "T", "U", "V", "W", "X", "Y", "Z", "a", "b", "c", "d", "e", "f",
       "g", "h", "i", "j", "k", "l", "m", "n", "o", "p", "q", "r", "s", "t", "u", "v",
       "w", "x", "y", "z", "0", "1", "2", "3", "4", "5", "6", "7", "8", "9", "+", "/" >>

B64Chars == {B64Alphabet[i] : i \in 1..64}

\* the 6-bit value of an alphabet character
Sextet(ch) == (CHOOSE i \in 1..64 : B64Alphabet[i] = ch) - 1

IsAsciiWhitespace(ch) == ch \in {" "}

StripWhitespace(s) == SelectSeq(s, LAMBDA ch : ~IsAsciiWhitespace(ch))

\* a length that is a multiple of four loses one or two trailing "="
StripPadding(s) ==
    IF Len(s) % 4 = 0 /\ Len(s) > 0 /\ s[Len(s)] = "="
    THEN IF s[Len(s) - 1] = "=" THEN SubSeq(s, 1, Len(s) - 2)
                                ELSE SubSeq(s, 1, Len(s) - 1)
    ELSE s

\* the bytes of a run of alphabet characters: 4 characters give 3 bytes, a
\* final 3 give 2 (2 bits dropped), a final 2 give 1 (4 bits dropped)
RECURSIVE SextetsToBytes(_)
SextetsToBytes(t) ==
    IF Len(t) >= 4
    THEN LET n == Sextet(t[1]) * 262144 + Sextet(t[2]) * 4096 + Sextet(t[3]) * 64 + Sextet(t[4])
         IN  <<n \div 65536, (n \div 256) % 256, n % 256>> \o SextetsToBytes(SubSeq(t, 5, Len(t)))
    ELSE IF Len(t) = 3
    THEN LET n == (Sextet(t[1]) * 4096 + Sextet(t[2]) * 64 + Sextet(t[3])) \div 4
         IN  <<n \div 256, n % 256>>
    ELSE IF Len(t) = 2
    THEN <<(Sextet(t[1]) * 64 + Sextet(t[2])) \div 16>>
    ELSE <<>>

\* atob(s): the binary string (a sequence of char codes), or InvalidCharacterError
atob(s) ==
    LET t == StripPadding(StripWhitespace(s))
    IN  IF Len(t) % 4 = 1 \/ \E i \in 1..Len(t) : t[i] \notin B64Chars
        THEN Err("InvalidCharacterError")
        ELSE Ok(SextetsToBytes(t))

----------------------------------------------------------------------------
(* decode *)

\* decode with the loop stopping one element early (i < len - 1): the last
\* element keeps the 0 the array was created with
decodeShortLoop(base64) ==
    LET binaryString == atob(base64)
    IN  IF IsErr(binaryString) THEN binaryString
        ELSE LET len == Len(binaryString.val)
             IN  Ok([i \in 1..len |-> IF i < len THEN binaryString.val[i] % 256 ELSE 0])

\* new Uint8Array(len) filled by bytes[i] = binaryString.charCodeAt(i)
decode(base64) ==
    LET binaryString == atob(base64)
    IN  IF IsErr(binaryString) THEN binaryString
        ELSE LET len == Len(binaryString.val)
             IN  Ok([i \in 1..len |-> binaryString.val[i] % 256])

----------------------------------------------------------------------------
(* DataView and typed-array writes *)

\* A write takes the buffer as Ok(bytes) and gives the buffer written, or the
\* error thrown; given an error (an earlier statement threw) it gives it back.

\* view.setUint8(offset, value)
setUint8(view, offset, value) ==
    IF IsErr(view) THEN view
    ELSE IF offset + 1 > Len(view.val) THEN Err("RangeError")
    ELSE Ok([view.val EXCEPT ![offset + 1] = value % 256])

\* view.setUint16(offset, value, true)
setUint16LE(view, offset, value) ==
    IF IsErr(view) THEN view
    ELSE IF offset + 2 > Len(view.val) THEN Err("RangeError")
    ELSE Ok([view.val EXCEPT ![offset + 1] = value % 256,
                             ![offset + 2] = (value \div 256) % 256])

\* view.setUint32(offset, value, true): the four low bytes of the value, lowest
\* first (taking the fourth byte modulo 256 is the reduction modulo 2^32)
setUint32LE(view, offset, value) ==
    IF IsErr(view) THEN view
    ELSE IF offset + 4 > Len(view.val) THEN Err("RangeError")
    ELSE Ok([view.val EXCEPT ![offset + 1] = value % 256,
                             ![offset + 2] = (value \div 256) % 256,
                             ![offset + 3] = (value \div 65536) % 256,
                             ![offset + 4] = (value \div 16777216) % 256])

\* typedArray.set(src, offset)
setBytes(target, src, offset) ==
    IF IsErr(target) THEN target
    ELSE IF offset + Len(src) > Len(target.val) THEN Err("RangeError")
    ELSE Ok([i \in 1..Len(target.val) |->
                IF i > offset /\ i <= offset + Len(src) THEN src[i - offset]
                                                        ELSE target.val[i]])

\* the loop of writeString, from index i on
RECURSIVE writeStringFrom(_, _, _, _)
writeStringFrom(view, offset, string, i) ==
    IF i >= Len(string) THEN view
    ELSE writeStringFrom(setUint8(view, offset + i, charCodeAt(string, i)),
                         offset, string, i + 1)

writeString(view, offset, string) == writeStringFrom(view, offset, string, 0)

----------------------------------------------------------------------------
(* createWavBlob *)

SAMPLE_RATE == 24000
NUM_CHANNELS == 1
BITS_PER_SAMPLE == 16
HeaderSize == 44

byteRate == SAMPLE_RATE * NUM_CHANNELS * (BITS_PER_SAMPLE \div 8)
blockAlign == NUM_CHANNELS * (BITS_PER_SAMPLE \div 8)

\* WriteRiff with the whole file's size as chunkSize
WriteRiffFileSize(view, dataSize) ==
    LET a == writeString(view, 0, <<"R", "I", "F", "F">>)
        b == setUint32LE(a, 4, HeaderSize + dataSize)
    IN  writeString(b, 8, <<"W", "A", "V", "E">>)

\* the RIFF chunk descriptor
WriteRiff(view, dataSize) ==
    LET a == writeString(view, 0, <<"R", "I", "F", "F">>)
        b == setUint32LE(a, 4, 36 + dataSize)
    IN  writeString(b, 8, <<"W", "A", "V", "E">>)

\* WriteFmt with the byte rate counted in bits
WriteFmtBitRate(view) ==
    LET a == writeString(view, 12, <<"f", "m", "t", " ">>)
        b == setUint32LE(a, 16, 16)
        c == setUint16LE(b, 20, 1)
        d == setUint16LE(c, 22, NUM_CHANNELS)
        e == setUint32LE(d, 24, SAMPLE_RATE)
        f == setUint32LE(e, 28, SAMPLE_RATE * NUM_CHANNELS * BITS_PER_SAMPLE)
        g == setUint16LE(f, 32, blockAlign)
    IN  setUint16LE(g, 34, BITS_PER_SAMPLE)

\* the "fmt " sub-chunk
WriteFmt(view) ==
    LET a == writeString(view, 12, <<"f", "m", "t", " ">>)
        b == setUint32LE(a, 16, 16)
        c == setUint16LE(b, 20, 1)
        d == setUint16LE(c, 22, NUM_CHANNELS)
        e == setUint32LE(d, 24, SAMPLE_RATE)
        f == setUint32LE(e, 28, byteRate)
        g == setUint16LE(f, 32, blockAlign)
    IN  setUint16LE(g, 34, BITS_PER_SAMPLE)

\* WriteData with the payload size counted in samples
WriteDataSampleCount(view, dataSize) ==
    LET a == writeString(view, 36, <<"d", "a", "t", "a">>)
    IN  setUint32LE(a, 40, dataSize \div (BITS_PER_SAMPLE \div 8))

\* the "data" sub-chunk header
WriteData(view, dataSize) ==
    LET a == writeString(view, 36, <<"d", "a", "t", "a">>)
    IN  setUint32LE(a, 40, dataSize)

\* WritePcm with the payload placed over the data sub-chunk's size field
WritePcmAtSizeField(view, pcmData) == setBytes(view, pcmData, HeaderSize - 4)

\* wavBuffer.set(pcmData, 44)
WritePcm(view, pcmData) == setBytes(view, pcmData, HeaderSize)

createWavBlob(b64) ==
    LET pcmData == decode(b64)
    IN  IF IsErr(pcmData) THEN pcmData
        ELSE LET dataSize == Len(pcmData.val)
                 buffer == Ok(Fill(HeaderSize + dataSize, 0))
                 a == WriteRiff(buffer, dataSize)
                 b == WriteFmt(a)
                 c == WriteData(b, dataSize)
                 wavBuffer == WritePcm(c, pcmData.val)
             IN  IF IsErr(wavBuffer) THEN wavBuffer
                 ELSE Ok([type |-> "audio/wav", bytes |-> wavBuffer.val])

----------------------------------------------------------------------------
(* decodeAudioData *)

\* a Float32 sample, exactly; NaN is what undefined / 32768.0 gives
Float(num, den) == [num |-> num, den |-> den]
NaN == Float(0, 0)

\* the signed 16-bit value of an unsigned one
ToInt16(u) == IF u >= 32768 THEN u - 65536 ELSE u

\* new Int16Array(buffer): a view of the whole buffer, two bytes to an element,
\* low byte first; a RangeError when the byte length is odd
Int16Array(buffer) ==
    IF Len(buffer) % 2 # 0 THEN Err("RangeError")
    ELSE Ok([k \in 1..(Len(buffer) \div 2) |->
                ToInt16(buffer[2 * k - 1] + 256 * buffer[2 * k])])

\* dataInt16.length / numChannels, a number that need not be whole
FrameCount(length, numChannels) == Float(length, numChannels)

\* ctx.createBuffer(numChannels, frameCount, sampleRate): the frame count is
\* converted to an unsigned long (truncated); a NotSupportedError when it is 0
createBuffer(numChannels, frameCount, sampleRate) ==
    LET length == frameCount.num \div frameCount.den
    IN  IF length = 0 THEN Err("NotSupportedError")
        ELSE Ok([numberOfChannels |-> numChannels,
                 length |-> length,
                 sampleRate |-> sampleRate,
                 channelData |-> Fill(numChannels, Fill(length, Float(0, 1)))])

\* Normalize with the largest positive sample as the divisor
NormalizeBy32767(sample) == Float(sample, 32767)

\* sample / 32768.0
Normalize(sample) == Float(sample, 32768)

\* SampleIndex with frame and channel exchanged
SampleIndexSwapped(i, numChannels, channel) == channel * numChannels + i

\* i * numChannels + channel
SampleIndex(i, numChannels, channel) == i * numChannels + channel

\* the inner loop for one channel, from frame i on: an index past the end of
\* dataInt16 reads undefined, a write past the end of channelData is ignored
RECURSIVE fillChannel(_, _, _, _, _, _)
fillChannel(channelData, view, frameCount, numChannels, channel, i) ==
    IF ~(i * frameCount.den < frameCount.num) THEN channelData
    ELSE LET k == SampleIndex(i, numChannels, channel)
             value == IF k >= 0 /\ k < Len(view) THEN Normalize(view[k + 1]) ELSE NaN
             written == IF i < Len(channelData)
                        THEN [channelData EXCEPT ![i + 1] = value]
                        ELSE channelData
         IN  fillChannel(written, view, frameCount, numChannels, channel, i + 1)

\* the values of i for which the inner loop runs its body: i < frameCount
LoopFrames(frameCount) ==
    {i \in 0..frameCount.num : i * frameCount.den < frameCount.num}

\* the outer loop: every channel of the buffer filled
fillBuffer(buffer, view, frameCount, numChannels) ==
    [buffer EXCEPT !.channelData =
        [channel \in 1..Len(buffer.channelData) |->
            IF channel <= numChannels
            THEN fillChannel(buffer.channelData[channel], view, frameCount,
                             numChannels, channel - 1, 0)
            ELSE buffer.channelData[channel]]]

decodeAudioData(data, sampleRate, numChannels) ==
    LET view == Int16Array(data)
    IN  IF IsErr(view) THEN view
        ELSE LET frameCount == FrameCount(Len(view.val), numChannels)
                 buffer == createBuffer(numChannels, frameCount, sampleRate)
             IN  IF IsErr(buffer) THEN buffer
                 ELSE Ok(fillBuffer(buffer.val, view.val, frameCount, numChannels))

----------------------------------------------------------------------------
(* The payloads the synthesis service can return: base64 of raw PCM *)

\* 16-bit samples as byte pairs, low byte first: 0, 32767, -32768, -1, 255
SampleBytes == {<<0, 0>>, <<255, 127>>, <<0, 128>>, <<255, 255>>, <<255, 0>>}

\* a dangling last byte of a payload that is not sample-aligned
TailBytes == {<<>>, <<127>>}

\* PCM payloads of at most n whole samples
PcmPayloads(n) ==
    {Flatten(ss) \o tail : ss \in SeqsUpTo(SampleBytes, n), tail \in TailBytes}

\* standard base64 with padding
RECURSIVE btoa(_)
btoa(bytes) ==
    IF Len(bytes) >= 3
    THEN LET n == bytes[1] * 65536 + bytes[2] * 256 + bytes[3]
         IN  << B64Alphabet[(n \div 262144) + 1], B64Alphabet[((n \div 4096) % 64) + 1],
                B64Alphabet[((n \div 64) % 64) + 1], B64Alphabet[(n % 64) + 1] >>
             \o btoa(SubSeq(bytes, 4, Len(bytes)))
    ELSE IF Len(bytes) = 2
    THEN LET n == (bytes[1] * 256 + bytes[2]) * 4
         IN  << B64Alphabet[(n \div 4096) + 1], B64Alphabet[((n \div 64) % 64) + 1],
                B64Alphabet[(n % 64) + 1], "=" >>
    ELSE IF Len(bytes) = 1
    THEN LET n == bytes[1] * 16
         IN  << B64Alphabet[(n \div 64) + 1], B64Alphabet[(n % 64) + 1], "=", "=" >>
    ELSE <<>>

\* the string without its "=" characters
Unpadded(s) == SelectSeq(s, LAMBDA ch : ch # "=")

\* a payload as the service sends it, and as a faulty transfer can leave it:
\* unpadded, with whitespace, with a foreign character, with one character
\* too many, with padding in front
Transfers(s) ==
    {s, Unpadded(s), s \o <<" ">>, s \o <<"!">>, s \o <<"A">>, <<"=">> \o s}

WavInputs == UNION {Transfers(btoa(b)) : b \in PcmPayloads(MaxSamples)}

----------------------------------------------------------------------------
(* The App component, v2.0.0: values of its state *)

\* null, and a string where the state is string | null
null == [tag |-> "null"]
Str(s) == [tag |-> "string", val |-> s]

\* Text is a sequence of tokens: a run of characters, white space, a start
\* tag, an end tag or an empty-element tag; '' is the empty sequence
Chars(c) == [kind |-> "text", chars |-> c]
Space == [kind |-> "space"]
Open(name) == [kind |-> "open", name |-> name]
Close(name) == [kind |-> "close", name |-> name]
Empty(name) == [kind |-> "empty", name |-> name]

IsSpace(tok) == tok.kind = "space"

\* String.prototype.trim
RECURSIVE trimStart(_)
trimStart(text) ==
    IF text # <<>> /\ IsSpace(Head(text)) THEN trimStart(Tail(text)) ELSE text

RECURSIVE trimEnd(_)
trimEnd(text) ==
    IF text # <<>> /\ IsSpace(text[Len(text)])
    THEN trimEnd(SubSeq(text, 1, Len(text) - 1)) ELSE text

trim(text) == trimEnd(trimStart(text))

DEFAULT_TEXT == <<Chars("DEFAULT_TEXT")>>
DEFAULT_GUIDE == <<Chars("DEFAULT_GUIDE")>>
DEFAULT_INPUT == <<Chars("DEFAULT_INPUT")>>
DEFAULT_GUIDE_TEXT == <<Chars("DEFAULT_GUIDE_TEXT")>>
sampleText == <<Chars("This is a sample of my voice.")>>

\* what the user can have in the input box and in the guide box
InputTexts == {<<>>, DEFAULT_TEXT, <<Chars("typed")>>}
GuideTexts == {<<>>, DEFAULT_GUIDE}

\* the options offered, as many of each list as the model lets the user choose
vocalExpressions == {"Speech", "Recitation"}
tones == {"Standard", "Reverent"}
voices == {"Charon", "Kore"}

\* the state after the first render
AppInitial ==
    [inputText |-> DEFAULT_TEXT,
     guideText |-> DEFAULT_GUIDE,
     language |-> "Sanskrit",
     ssml |-> <<>>,
     base64Audio |-> <<>>,
     vocalExpression |-> "Recitation",
     tone |-> "Reverent",
     selectedVoice |-> "Charon",
     isLoading |-> FALSE,
     isResearching |-> FALSE,
     isGeneratingSSML |-> FALSE,
     isPlaying |-> FALSE,
     error |-> null,
     aiReport |-> null,
     showGuide |-> FALSE,
     isReleaseNotesOpen |-> FALSE]

\* the language the detection service names for a text
LanguageOf(text) == IF text = DEFAULT_TEXT THEN "Sanskrit" ELSE "English"

\* what performAiResearch can resolve to, JSON.parse(response.text): a report
\* that keeps to the lists of the prompt, and reports that name a voice, an
\* expression or a tone that is not in them
Report(voice, expression, tone) ==
    [guidance |-> <<Chars("guidance")>>,
     recommendedVoice |-> voice,
     recommendedVocalExpression |-> expression,
     recommendedTone |-> tone,
     reasoning |-> [voice |-> "why", expression |-> "why", tone |-> "why"]]

Reports ==
    {Report("Kore", "Speech", "Standard"),
     Report("Orus", "Speech", "Standard"),
     Report("Kore", "Song", "Solemn")}

----------------------------------------------------------------------------
(* createWavBlob applied to one payload *)

\* the playAudio invocations the model follows
Calls == {1, 2}

\* no invocation has been made
InitCalls ==
    /\ pc = [c \in Calls |-> "idle"]
    /\ base64Audio = [c \in Calls |-> <<>>]
    /\ outputAudioContext = [c \in Calls |-> FALSE]
    /\ decodedBytes = [c \in Calls |-> Unset]
    /\ dataInt16 = [c \in Calls |-> Unset]
    /\ audioBuffer = [c \in Calls |-> Unset]
    /\ source = [c \in Calls |-> Unset]
    /\ error = [c \in Calls |-> Unset]
    /\ steps = [c \in Calls |-> <<>>]

InitIdlePlay == hasAudioContext = TRUE /\ InitCalls

InitIdleWav == wavInput = <<>> /\ wavResult = Unset

InitIdleDec == decData = <<>> /\ decChannels = NUM_CHANNELS /\ decResult = Unset

\* the runs of handleGenerateSSML the model follows
SsmlRuns == {1, 2}

\* a run of a handler that has not been started
IdleRun == [at |-> "idle"]

\* the runs of handleAiResearch and the detectLanguage calls the model follows
ResearchRuns == {1, 2}
DetectRuns == {1, 2}

\* no balanced list is being computed
InitIdleVoices ==
    /\ VOICES = <<>>
    /\ balanced = Unset

\* the App after its first render: no handler has run, no error timer is
\* pending
InitApp ==
    /\ app = AppInitial
    /\ playReqs = [h \in Calls |-> IdleRun]
    /\ ssmlReqs = [g \in SsmlRuns |-> IdleRun]
    /\ researchReqs = [r \in ResearchRuns |-> IdleRun]
    /\ detectReqs = [d \in DetectRuns |-> IdleRun]
    /\ timeouts = <<>>
    /\ clicks = 0

\* an App that is not used: the API key is set and no debounce timer is pending
InitIdleApp ==
    /\ InitApp
    /\ apiKey = TRUE
    /\ debounceTimeout = null

InitWav ==
    /\ wavInput \in WavInputs
    /\ wavResult = Unset
    /\ InitIdleDec
    /\ InitIdlePlay
    /\ InitIdleApp
    /\ InitIdleVoices

CallCreateWavBlob ==
    /\ wavResult = Unset
    /\ wavResult' = createWavBlob(wavInput)
    /\ UNCHANGED <<wavInput, decVars, playVars, appVars>>

NextWav == CallCreateWavBlob

SpecWav == InitWav /\ [][NextWav]_vars

----------------------------------------------------------------------------
(* Properties of createWavBlob, under SpecWav *)

\* the little-endian unsigned integers of a byte sequence at a byte offset
U16LE(bytes, offset) == bytes[offset + 1] + 256 * bytes[offset + 2]
U32LE(bytes, offset) ==
    bytes[offset + 1] + 256 * bytes[offset + 2] + 65536 * bytes[offset + 3]
        + 16777216 * bytes[offset + 4]

\* the bytes of a blob from offset a up to, not including, offset b
Slice(bytes, a, b) == SubSeq(bytes, a + 1, b)

\* createWavBlob has returned a blob
WavDone == IsOk(wavResult)
\* the PCM byte sequence B the payload decodes to
WavPcm == decode(wavInput).val
WavBytes == wavResult.val.bytes

\* C1: the blob carries the decoded PCM bytes verbatim from offset 44 on, and
\* nothing follows them.
C1_PayloadVerbatim ==
    WavDone =>
        /\ Len(WavBytes) = 44 + Len(WavPcm)
        /\ \A i \in 0..(Len(WavPcm) - 1) : WavBytes[44 + i + 1] = WavPcm[i + 1]

C1_Witness == WavDone /\ Len(WavPcm) = 3 /\ WavPcm[3] # 0

\* C2: the tags "RIFF", "WAVE", "fmt " and "data" stand at offsets 0, 8, 12 and
\* 36, and ChunkSize (uint32 LE at offset 4) is 36 + len(B).
C2_TagsAndChunkSize ==
    WavDone =>
        /\ Slice(WavBytes, 0, 4) = <<82, 73, 70, 70>>
        /\ Slice(WavBytes, 8, 12) = <<87, 65, 86, 69>>
        /\ Slice(WavBytes, 12, 16) = <<102, 109, 116, 32>>
        /\ Slice(WavBytes, 36, 40) = <<100, 97, 116, 97>>
        /\ U32LE(WavBytes, 4) = 36 + Len(WavPcm)

C2_Witness == WavDone /\ Len(WavPcm) = 2 /\ U32LE(WavBytes, 4) = 38

\* C3: for a payload that decodes to B, of any length, createWavBlob raises no
\* error and returns 44 + len(B) bytes with Subchunk2Size (uint32 LE at offset
\* 40) equal to len(B); the empty B gives 44 bytes with ChunkSize 36 and
\* Subchunk2Size 0, a 4-byte B gives 48 bytes with Subchunk2Size 4.
C3_SizeForEveryLength ==
    (IsOk(decode(wavInput)) /\ wavResult # Unset) =>
        /\ IsOk(wavResult)
        /\ Len(WavBytes) = 44 + Len(WavPcm)
        /\ U32LE(WavBytes, 40) = Len(WavPcm)
        /\ Len(WavPcm) = 0 =>
              Len(WavBytes) = 44 /\ U32LE(WavBytes, 4) = 36 /\ U32LE(WavBytes, 40) = 0
        /\ Len(WavPcm) = 4 => Len(WavBytes) = 48 /\ U32LE(WavBytes, 40) = 4

C3_Witness ==
    /\ WavDone
    /\ WavPcm = <<0, 0, 255, 127>>
    /\ Len(WavBytes) = 48

\* C4: the fmt sub-chunk does not depend on the payload: Subchunk1Size 16,
\* AudioFormat 1, NumChannels 1, SampleRate 24000, ByteRate 48000, BlockAlign 2,
\* BitsPerSample 16, all little-endian.
C4_FmtChunk ==
    WavDone =>
        /\ U32LE(WavBytes, 16) = 16
        /\ U16LE(WavBytes, 20) = 1
        /\ U16LE(WavBytes, 22) = 1
        /\ U32LE(WavBytes, 24) = 24000
        /\ U32LE(WavBytes, 28) = 48000
        /\ U16LE(WavBytes, 32) = 2
        /\ U16LE(WavBytes, 34) = 16
        /\ Slice(WavBytes, 16, 36) =
              <<16, 0, 0, 0, 1, 0, 1, 0, 192, 93, 0, 0, 128, 187, 0, 0, 2, 0, 16, 0>>

C4_Witness == WavDone /\ Len(WavPcm) = 5

\* the number of alphabet characters of a string (padding and whitespace excluded)
AlphabetCount(s) == Len(SelectSeq(s, LAMBDA ch : ch \in B64Chars))

\* the payloads whose encoding a string is, padded or not, whitespace aside
EncodedPayloads(s) ==
    {b \in PcmPayloads(MaxSamples) :
        StripWhitespace(s) \in {btoa(b), Unpadded(btoa(b))}}

\* C17: for a well-formed base64 string with v alphabet characters, decode
\* returns floor(v*3/4) bytes, each in 0..255, and byte i is the i-th byte of
\* the payload that was encoded.
C17_DecodeLength ==
    wavResult # Unset =>
        \A b \in EncodedPayloads(wavInput) :
            LET r == decode(wavInput)
                v == AlphabetCount(wavInput)
            IN  /\ IsOk(r)
                /\ Len(r.val) = (v * 3) \div 4
                /\ \A i \in 1..Len(r.val) : r.val[i] \in 0..255
                /\ r.val = b
                /\ IsOk(wavResult)
                /\ SubSeq(wavResult.val.bytes, HeaderSize + 1, Len(wavResult.val.bytes)) = b

\* an unpadded three-character string has been decoded to two bytes, the last not 0
C17_Witness ==
    /\ wavResult # Unset
    /\ wavInput = Unpadded(btoa(<<255, 127>>))
    /\ AlphabetCount(wavInput) = 3
    /\ <<255, 127>> \in EncodedPayloads(wavInput)
    /\ decode(wavInput) = Ok(<<255, 127>>)

----------------------------------------------------------------------------
(* decodeAudioData applied to one byte array and channel count *)

DecInputs == PcmPayloads(MaxDecSamples)

InitDecode ==
    /\ decData \in DecInputs
    /\ decChannels \in 1..MaxChannels
    /\ decResult = Unset
    /\ InitIdleWav
    /\ InitIdlePlay
    /\ InitIdleApp
    /\ InitIdleVoices

CallDecodeAudioData ==
    /\ decResult = Unset
    /\ decResult' = decodeAudioData(decData, SAMPLE_RATE, decChannels)
    /\ UNCHANGED <<decData, decChannels, wavVars, playVars, appVars>>

NextDecode == CallDecodeAudioData

SpecDecode == InitDecode /\ [][NextDecode]_vars

----------------------------------------------------------------------------
(* Properties of decodeAudioData, under SpecDecode *)

\* decodeAudioData has returned a buffer
DecDone == IsOk(decResult)
DecBuffer == decResult.val

\* the signed 16-bit little-endian value of the byte pair at sample index k
S16LE(bytes, k) ==
    bytes[2 * k + 1] + 256 * bytes[2 * k + 2]
        - (IF bytes[2 * k + 2] >= 128 THEN 65536 ELSE 0)

\* C7: every sample written equals s/32768, s the signed 16-bit little-endian
\* value of its byte pair: -32768 gives exactly -1, 32767 gives 32767/32768
\* (not 1), and every sample lies in [-1, 1).
C7_Normalization ==
    DecDone =>
        \A ch \in 1..decChannels : \A i \in 1..DecBuffer.length :
            LET s == S16LE(decData, (i - 1) * decChannels + (ch - 1))
                x == DecBuffer.channelData[ch][i]
            IN  /\ x.den > 0
                /\ x.num * 32768 = s * x.den
                /\ s = -32768 => x.num = -x.den
                /\ s = 32767 => x.num # x.den /\ x.num * 32768 = 32767 * x.den
                /\ -x.den <= x.num /\ x.num < x.den

C7_Witness ==
    /\ DecDone
    /\ decChannels = 1
    /\ \E i, j \in 1..DecBuffer.length :
          /\ S16LE(decData, i - 1) = -32768
          /\ S16LE(decData, j - 1) = 32767
          /\ DecBuffer.channelData[1][i].num = -DecBuffer.channelData[1][i].den

\* C8: output[c][i] comes from interleaved sample i*channelCount + c; for two
\* channels and samples [L0, R0, L1, R1] channel 0 receives [L0, L1] and
\* channel 1 receives [R0, R1]; read frame by frame, the channels give back
\* the interleaved samples, each once.
C8_Deinterleave ==
    DecDone =>
        LET samples == Int16Array(decData).val
            out == DecBuffer.channelData
            n == DecBuffer.length
        IN  /\ Len(out) = decChannels
            /\ \A ch \in 1..decChannels : Len(out[ch]) = n
            /\ n = Len(samples) \div decChannels
            /\ \A k \in 0..(n * decChannels - 1) :
                  out[(k % decChannels) + 1][(k \div decChannels) + 1].num = samples[k + 1]
            /\ decChannels = 2 =>
                  /\ out[1] = [i \in 1..n |-> Normalize(samples[2 * i - 1])]
                  /\ out[2] = [i \in 1..n |-> Normalize(samples[2 * i])]

C8_Witness ==
    /\ DecDone
    /\ decChannels = 2
    /\ decData = <<0, 0, 255, 127, 0, 128, 255, 255>>
    /\ DecBuffer.channelData[1] = <<Float(0, 32768), Float(-32768, 32768)>>
    /\ DecBuffer.channelData[2] = <<Float(32767, 32768), Float(-1, 32768)>>

\* C18: frameCount is the integer quotient of sampleCount by channelCount:
\* remainder samples are dropped, the buffer has floor(sampleCount /
\* channelCount) frames, and no iteration reads past the end of the sample
\* array or writes past the end of a channel array.
C18_IntegerFrameCount ==
    (/\ decResult # Unset
     /\ IsOk(Int16Array(decData))
     /\ Len(Int16Array(decData).val) % decChannels # 0) =>
        LET samples == Int16Array(decData).val
            frameCount == FrameCount(Len(samples), decChannels)
            quotient == Len(samples) \div decChannels
        IN  /\ frameCount.num = quotient * frameCount.den
            /\ IsOk(decResult)
            /\ DecBuffer.length = quotient
            /\ \A ch \in 1..decChannels : Len(DecBuffer.channelData[ch]) = quotient
            /\ \A i \in LoopFrames(frameCount) : \A channel \in 0..(decChannels - 1) :
                  /\ SampleIndex(i, decChannels, channel) < Len(samples)
                  /\ i < quotient

----------------------------------------------------------------------------
(* playAudio *)

\* The statements of an invocation up to its await run without suspension;
\* they are separate steps here, named by the line they start at, which adds
\* intermediate states and no behaviour of an invocation.

PlaySampleBytes == {<<0, 0>>, <<255, 127>>}

PlayPayloads ==
    {Flatten(ss) \o tail : ss \in SeqsUpTo(PlaySampleBytes, MaxPlaySamples),
                           tail \in TailBytes}

\* what an invocation may be given: a payload as sent, or one with a foreign character
PlayInputs == UNION {{btoa(b), btoa(b) \o <<"!">>} : b \in PlayPayloads}

InitPlay ==
    /\ hasAudioContext \in BOOLEAN
    /\ InitCalls
    /\ InitIdleWav
    /\ InitIdleDec
    /\ InitIdleApp
    /\ InitIdleVoices

\* the promise of invocation c rejects with the named error
Reject(c, name) ==
    /\ pc' = [pc EXCEPT ![c] = "rejected"]
    /\ error' = [error EXCEPT ![c] = Err(name)]

Did(c, step) == steps' = [steps EXCEPT ![c] = Append(@, step)]

\* invocation c begins with the argument b64
Invoke(c, b64) ==
    /\ pc[c] = "idle"
    /\ base64Audio' = [base64Audio EXCEPT ![c] = b64]
    /\ pc' = [pc EXCEPT ![c] = "L58"]
    /\ UNCHANGED <<hasAudioContext, outputAudioContext, decodedBytes, dataInt16,
                   audioBuffer, source, error, steps>>

\* playAudio(b64) is called
PlayInvoke(c, b64) ==
    /\ Invoke(c, b64)
    /\ UNCHANGED <<wavVars, decVars, appVars>>

\* PlayOpenContext without the test for the constructor
PlayOpenContextUnchecked(c) ==
    /\ pc[c] = "L58"
    /\ outputAudioContext' = [outputAudioContext EXCEPT ![c] = TRUE]
    /\ pc' = [pc EXCEPT ![c] = "L64"]
    /\ UNCHANGED <<wavVars, decVars, appVars, hasAudioContext, base64Audio, decodedBytes, dataInt16,
                   audioBuffer, source, error, steps>>

\* the constructor is looked up; without one the invocation throws, with one
\* the output context is constructed
PlayOpenContext(c) ==
    /\ pc[c] = "L58"
    /\ IF ~hasAudioContext
       THEN /\ Reject(c, "Browser does not support AudioContext.")
            /\ UNCHANGED outputAudioContext
       ELSE /\ outputAudioContext' = [outputAudioContext EXCEPT ![c] = TRUE]
            /\ pc' = [pc EXCEPT ![c] = "L64"]
            /\ UNCHANGED error
    /\ UNCHANGED <<wavVars, decVars, appVars, hasAudioContext, base64Audio, decodedBytes, dataInt16,
                   audioBuffer, source, steps>>

\* PlayDecode with the failure of decode caught and an empty array used instead
PlayDecodeLenient(c) ==
    /\ pc[c] = "L64"
    /\ LET bytes == decode(base64Audio[c])
       IN  decodedBytes' = [decodedBytes EXCEPT ![c] = IF IsErr(bytes) THEN Ok(<<>>) ELSE bytes]
    /\ Did(c, "decode")
    /\ pc' = [pc EXCEPT ![c] = "L33"]
    /\ UNCHANGED <<wavVars, decVars, appVars, hasAudioContext, base64Audio, outputAudioContext, dataInt16,
                   audioBuffer, source, error>>

\* decodedBytes = decode(base64Audio)
PlayDecode(c) ==
    /\ pc[c] = "L64"
    /\ LET bytes == decode(base64Audio[c])
       IN  IF IsErr(bytes)
           THEN /\ Reject(c, bytes.name)
                /\ UNCHANGED <<decodedBytes, steps>>
           ELSE /\ decodedBytes' = [decodedBytes EXCEPT ![c] = bytes]
                /\ Did(c, "decode")
                /\ pc' = [pc EXCEPT ![c] = "L33"]
                /\ UNCHANGED error
    /\ UNCHANGED <<wavVars, decVars, appVars, hasAudioContext, base64Audio, outputAudioContext, dataInt16,
                   audioBuffer, source>>

\* decodeAudioData: dataInt16 = new Int16Array(data.buffer); a throw rejects
\* the promise playAudio awaits, and so playAudio's own
PlayInt16View(c) ==
    /\ pc[c] = "L33"
    /\ LET view == Int16Array(decodedBytes[c].val)
       IN  IF IsErr(view)
           THEN /\ Reject(c, view.name)
                /\ UNCHANGED <<dataInt16, steps>>
           ELSE /\ dataInt16' = [dataInt16 EXCEPT ![c] = view]
                /\ Did(c, "interpret")
                /\ pc' = [pc EXCEPT ![c] = "L34"]
                /\ UNCHANGED error
    /\ UNCHANGED <<wavVars, decVars, appVars, hasAudioContext, base64Audio, outputAudioContext, decodedBytes,
                   audioBuffer, source>>

\* decodeAudioData: frameCount and buffer = ctx.createBuffer(...)
PlayCreateBuffer(c) ==
    /\ pc[c] = "L34"
    /\ LET frameCount == FrameCount(Len(dataInt16[c].val), NUM_CHANNELS)
           buffer == createBuffer(NUM_CHANNELS, frameCount, SAMPLE_RATE)
       IN  IF IsErr(buffer)
           THEN /\ Reject(c, buffer.name)
                /\ UNCHANGED audioBuffer
           ELSE /\ audioBuffer' = [audioBuffer EXCEPT ![c] = buffer]
                /\ pc' = [pc EXCEPT ![c] = "L37"]
                /\ UNCHANGED error
    /\ UNCHANGED <<wavVars, decVars, appVars, hasAudioContext, base64Audio, outputAudioContext, decodedBytes,
                   dataInt16, source, steps>>

\* PlayNormalize converting the samples to big-endian in place first: the
\* two bytes of every sample of the decoded array are exchanged
PlayNormalizeInPlace(c) ==
    /\ pc[c] = "L37"
    /\ LET frameCount == FrameCount(Len(dataInt16[c].val), NUM_CHANNELS)
       IN  audioBuffer' = [audioBuffer EXCEPT ![c] =
               Ok(fillBuffer(@.val, dataInt16[c].val, frameCount, NUM_CHANNELS))]
    /\ decodedBytes' = [decodedBytes EXCEPT ![c] =
           Ok([k \in 1..Len(@.val) |-> IF k % 2 = 1 THEN @.val[k + 1] ELSE @.val[k - 1]])]
    /\ Did(c, "normalize")
    /\ pc' = [pc EXCEPT ![c] = "await"]
    /\ UNCHANGED <<wavVars, decVars, appVars, hasAudioContext, base64Audio, outputAudioContext,
                   dataInt16, source, error>>

\* decodeAudioData: the loops fill the buffer; it is returned, and playAudio
\* is suspended at its await
PlayNormalize(c) ==
    /\ pc[c] = "L37"
    /\ LET frameCount == FrameCount(Len(dataInt16[c].val), NUM_CHANNELS)
       IN  audioBuffer' = [audioBuffer EXCEPT ![c] =
               Ok(fillBuffer(@.val, dataInt16[c].val, frameCount, NUM_CHANNELS))]
    /\ Did(c, "normalize")
    /\ pc' = [pc EXCEPT ![c] = "await"]
    /\ UNCHANGED <<wavVars, decVars, appVars, hasAudioContext, base64Audio, outputAudioContext, decodedBytes,
                   dataInt16, source, error>>

\* PlayCreateSource with audioBuffer a variable of the module, shared by the
\* invocations: the source gets the buffer another invocation built, if any
PlayCreateSourceShared(c) ==
    /\ pc[c] = "await"
    /\ LET others == {d \in Calls : d # c /\ IsOk(audioBuffer[d])}
           shared == IF others = {} THEN audioBuffer[c]
                     ELSE audioBuffer[CHOOSE d \in others : TRUE]
       IN  source' = [source EXCEPT ![c] =
               Ok([buffer |-> shared, connected |-> FALSE, started |-> FALSE,
                   ended |-> FALSE])]
    /\ pc' = [pc EXCEPT ![c] = "L69"]
    /\ UNCHANGED <<wavVars, decVars, appVars, hasAudioContext, base64Audio, outputAudioContext, decodedBytes,
                   dataInt16, audioBuffer, error, steps>>

\* playAudio resumes: source = createBufferSource(); source.buffer = audioBuffer
PlayCreateSource(c) ==
    /\ pc[c] = "await"
    /\ source' = [source EXCEPT ![c] =
           Ok([buffer |-> audioBuffer[c], connected |-> FALSE, started |-> FALSE,
               ended |-> FALSE])]
    /\ pc' = [pc EXCEPT ![c] = "L69"]
    /\ UNCHANGED <<wavVars, decVars, appVars, hasAudioContext, base64Audio, outputAudioContext, decodedBytes,
                   dataInt16, audioBuffer, error, steps>>

\* source.connect(outputAudioContext.destination)
PlayConnect(c) ==
    /\ pc[c] = "L69"
    /\ source' = [source EXCEPT ![c] = Ok([@.val EXCEPT !.connected = TRUE])]
    /\ Did(c, "connect")
    /\ pc' = [pc EXCEPT ![c] = "L70"]
    /\ UNCHANGED <<wavVars, decVars, appVars, hasAudioContext, base64Audio, outputAudioContext, decodedBytes,
                   dataInt16, audioBuffer, error>>

\* PlayStart placed before the connection
PlayStartUnconnected(c) ==
    /\ pc[c] \in {"L69", "L70"}
    /\ ~source[c].val.started
    /\ source' = [source EXCEPT ![c] = Ok([@.val EXCEPT !.started = TRUE])]
    /\ Did(c, "start")
    /\ pc' = [pc EXCEPT ![c] = IF pc[c] = "L70" THEN "resolved" ELSE "L69"]
    /\ UNCHANGED <<wavVars, decVars, appVars, hasAudioContext, base64Audio, outputAudioContext, decodedBytes,
                   dataInt16, audioBuffer, error>>

\* PlayStart with the promise resolved from the source's onended: playback
\* is started, and the function returns only when the audio has ended
PlayStartAwaitingEnd(c) ==
    /\ pc[c] = "L70"
    /\ \/ /\ ~source[c].val.started
          /\ source' = [source EXCEPT ![c] = Ok([@.val EXCEPT !.started = TRUE])]
          /\ Did(c, "start")
          /\ UNCHANGED pc
       \/ /\ source[c].val.started /\ source[c].val.ended
          /\ pc' = [pc EXCEPT ![c] = "resolved"]
          /\ UNCHANGED <<source, steps>>
    /\ UNCHANGED <<wavVars, decVars, appVars, hasAudioContext, base64Audio, outputAudioContext, decodedBytes,
                   dataInt16, audioBuffer, error>>

\* source.start(); the function returns and its promise resolves
PlayStart(c) ==
    /\ pc[c] = "L70"
    /\ source' = [source EXCEPT ![c] = Ok([@.val EXCEPT !.started = TRUE])]
    /\ Did(c, "start")
    /\ pc' = [pc EXCEPT ![c] = "resolved"]
    /\ UNCHANGED <<wavVars, decVars, appVars, hasAudioContext, base64Audio, outputAudioContext, decodedBytes,
                   dataInt16, audioBuffer, error>>

\* the audio of invocation c has played to its end
PlayEnded(c) ==
    /\ IsOk(source[c]) /\ source[c].val.started /\ ~source[c].val.ended
    /\ source' = [source EXCEPT ![c] = Ok([@.val EXCEPT !.ended = TRUE])]
    /\ UNCHANGED <<wavVars, decVars, appVars, hasAudioContext, pc, base64Audio, outputAudioContext,
                   decodedBytes, dataInt16, audioBuffer, error, steps>>

\* createWavBlob is called with the payload invocation c of playAudio was given
CallCreateWavBlobOn(c) ==
    /\ wavResult = Unset
    /\ pc[c] # "idle"
    /\ wavInput' = base64Audio[c]
    /\ wavResult' = createWavBlob(base64Audio[c])
    /\ UNCHANGED <<decVars, playVars, appVars>>

\* the next statement of invocation c
PlayStep(c) ==
    \/ PlayOpenContext(c)
    \/ PlayDecode(c)
    \/ PlayInt16View(c)
    \/ PlayCreateBuffer(c)
    \/ PlayNormalize(c)
    \/ PlayCreateSource(c)
    \/ PlayConnect(c)
    \/ PlayStart(c)

Next ==
    \E c \in Calls :
        \/ \E b64 \in PlayInputs : PlayInvoke(c, b64)
        \/ CallCreateWavBlobOn(c)
        \/ PlayOpenContext(c)
        \/ PlayDecode(c)
        \/ PlayInt16View(c)
        \/ PlayCreateBuffer(c)
        \/ PlayNormalize(c)
        \/ PlayCreateSource(c)
        \/ PlayConnect(c)
        \/ PlayStart(c)

Spec == InitPlay /\ [][Next]_vars

----------------------------------------------------------------------------
(* Properties of playAudio, under Spec *)

IsPrefix(a, b) == Len(a) <= Len(b) /\ a = SubSeq(b, 1, Len(a))

\* the steps of an invocation, in the order of the code
PlayOrder == <<"decode", "interpret", "normalize", "connect", "start">>

\* source.start() has been called in invocation c
Started(c) == IsOk(source[c]) /\ source[c].val.started

\* the payload of invocation c has been decoded, to n bytes
DecodedTo(c, n) == IsOk(decodedBytes[c]) /\ Len(decodedBytes[c].val) = n

\* C5: a mono payload that decodes to an odd number n of bytes does not make
\* the Playback Adapter fail: the dangling byte is ignored and the buffer has
\* floor(n/2) frames, taken from the even-aligned prefix.
C5_OddPayloadTruncated ==
    \A c \in Calls :
        (IsOk(decodedBytes[c]) /\ Len(decodedBytes[c].val) % 2 = 1) =>
            /\ pc[c] # "rejected"
            /\ pc[c] \in {"await", "L69", "L70", "resolved"} =>
                  /\ audioBuffer[c].val.length = Len(decodedBytes[c].val) \div 2
                  /\ \A i \in 1..audioBuffer[c].val.length :
                        audioBuffer[c].val.channelData[1][i] =
                            Normalize(S16LE(decodedBytes[c].val, i - 1))

\* C6: for a zero-length PCM byte sequence the buffer has frameCount 0 and
\* playAudio completes without an error.
C6_EmptyPayloadPlays ==
    \A c \in Calls :
        DecodedTo(c, 0) =>
            /\ pc[c] # "rejected"
            /\ IsOk(audioBuffer[c]) => audioBuffer[c].val.length = 0

\* C9: the steps of an invocation occur in the order byte decode, PCM
\* interpretation, normalization, device connection, playback start; when
\* source.start() is reached the buffer holds every sample of the payload and
\* the source is connected.
C9_StepOrder ==
    \A c \in Calls :
        /\ IsPrefix(steps[c], PlayOrder)
        /\ Started(c) =>
              /\ source[c].val.connected
              /\ source[c].val.buffer = audioBuffer[c]
              /\ decodedBytes[c] = decode(base64Audio[c])
              /\ audioBuffer[c] =
                    decodeAudioData(decodedBytes[c].val, SAMPLE_RATE, NUM_CHANNELS)

C9_Witness ==
    \E c \in Calls :
        /\ Started(c)
        /\ pc[c] = "resolved"
        /\ steps[c] = PlayOrder
        /\ audioBuffer[c].val.channelData[1] = <<Float(32767, 32768)>>

\* C10: on a host with neither AudioContext nor webkitAudioContext an
\* invocation fails before the payload is decoded and before any buffer or
\* output context is constructed, and playback is never started.
C10_NoAudioContext ==
    ~hasAudioContext =>
        \A c \in Calls :
            /\ pc[c] \in {"idle", "L58", "rejected"}
            /\ pc[c] = "rejected" => IsErr(error[c])
            /\ ~outputAudioContext[c]
            /\ decodedBytes[c].tag = "unset"
            /\ dataInt16[c].tag = "unset"
            /\ audioBuffer[c].tag = "unset"
            /\ source[c].tag = "unset"
            /\ steps[c] = <<>>

C10_Witness ==
    /\ ~hasAudioContext
    /\ \E c \in Calls :
          /\ pc[c] = "rejected"
          /\ error[c] = Err("Browser does not support AudioContext.")
          /\ base64Audio[c] = btoa(<<255, 127>>)

\* the platform rejects the string as base64
Malformed(b64) == IsErr(atob(b64))

\* C11: a malformed base64 payload makes playAudio and createWavBlob fail at
\* the decode, with no partial result: no byte array, no buffer, no source,
\* no playback and no blob; a blob that is returned is a full one.
C11_MalformedPayloadFails ==
    /\ \A c \in Calls :
          Malformed(base64Audio[c]) =>
              /\ pc[c] \in {"L58", "L64", "rejected"}
              /\ (pc[c] = "rejected" /\ hasAudioContext) =>
                    error[c] = Err("InvalidCharacterError")
              /\ decodedBytes[c] = Unset
              /\ dataInt16[c] = Unset
              /\ audioBuffer[c] = Unset
              /\ source[c] = Unset
              /\ steps[c] = <<>>
    /\ (wavResult # Unset /\ Malformed(wavInput)) =>
          wavResult = Err("InvalidCharacterError")
    /\ IsOk(wavResult) =>
          /\ ~Malformed(wavInput)
          /\ Len(wavResult.val.bytes) = HeaderSize + Len(atob(wavInput).val)

\* both consumers have failed on the same malformed payload
C11_Witness ==
    \E c \in Calls :
        /\ Malformed(base64Audio[c])
        /\ pc[c] = "rejected"
        /\ error[c] = Err("InvalidCharacterError")
        /\ wavInput = base64Audio[c]
        /\ wavResult = Err("InvalidCharacterError")

\* everything invocation c has constructed
Locals(c) ==
    <<pc[c], base64Audio[c], outputAudioContext[c], decodedBytes[c], dataInt16[c],
      audioBuffer[c], source[c], error[c], steps[c]>>

\* invocation c is between its call and the settling of its promise
Running(c) == pc[c] \notin {"idle", "resolved", "rejected"}

C13_Independent ==
    \A c \in Calls :
        /\ pc[c] \in {"await", "L69", "L70"} => ENABLED PlayStep(c)
        /\ pc[c] \in {"L64", "L33", "L34", "L37", "await", "L69", "L70", "resolved"} =>
              outputAudioContext[c]
        /\ pc[c] = "rejected" =>
              \/ ~hasAudioContext
              \/ IsErr(decode(base64Audio[c]))
              \/ IsErr(decodeAudioData(decode(base64Audio[c]).val, SAMPLE_RATE, NUM_CHANNELS))
        /\ Started(c) =>
              source[c].val.buffer =
                  decodeAudioData(decode(base64Audio[c]).val, SAMPLE_RATE, NUM_CHANNELS)

C13_OwnStateOnly ==
    \A c, d \in Calls :
        (c # d /\ pc'[c] # pc[c]) => Locals(d)' = Locals(d)

\* C13: concurrent invocations of playAudio share no mutable state: a step of
\* one changes only what that invocation constructed, an invocation suspended
\* at its await can always resume and go on to start playback, it fails only
\* for its own payload, and it starts playback with exactly the samples of
\* its own payload.
C13_NoSharedState == []C13_Independent /\ [][C13_OwnStateOnly]_vars

\* one invocation has started playback while the other, given another
\* payload, is suspended at its await
C13_Witness ==
    \E c, d \in Calls :
        /\ c # d
        /\ Started(c) /\ pc[d] = "await"
        /\ audioBuffer[c] # audioBuffer[d]
        /\ source[c].val.buffer = audioBuffer[c]

\* the PCM bytes of the blob createWavBlob returned
BlobPcm == SubSeq(wavResult.val.bytes, HeaderSize + 1, Len(wavResult.val.bytes))

\* C16: neither consumer changes the decoded bytes: at every point of an
\* invocation the byte array is what decode gave and the Int16Array is a view
\* of it, and a blob made from the same payload, before, during or after the
\* invocation, holds exactly those bytes.
C16_NoMutation ==
    \A c \in Calls :
        /\ IsOk(decodedBytes[c]) =>
              /\ decodedBytes[c] = decode(base64Audio[c])
              /\ (wavResult # Unset /\ wavInput = base64Audio[c]) =>
                    IsOk(wavResult) /\ BlobPcm = decodedBytes[c].val
        /\ IsOk(dataInt16[c]) => dataInt16[c] = Int16Array(decodedBytes[c].val)
        /\ IsOk(audioBuffer[c]) =>
              audioBuffer[c].val.length = Len(decodedBytes[c].val) \div 2

\* both consumers have processed the payload [0xFF, 0x7F]
C16_Witness ==
    \E c \in Calls :
        /\ pc[c] = "resolved"
        /\ decodedBytes[c] = Ok(<<255, 127>>)
        /\ wavInput = base64Audio[c]
        /\ IsOk(wavResult) /\ BlobPcm = <<255, 127>>

----------------------------------------------------------------------------
(* The App component, v2.0.0 *)

\* the user events of a behaviour
MaxClicks == 3

\* the script the generation service writes for a text, a guide, an
\* expression and a tone: its characters are those of no other request
Script(inputText, guideText, vocalExpression, tone) ==
    [kind |-> "text", chars |-> "script",
     of |-> <<inputText, guideText, vocalExpression, tone>>]

IsScript(tok) == "of" \in DOMAIN tok

\* what generateSSML can resolve to: a script as asked for, or the script
\* with no <speak> element around it
SsmlResults(inputText, guideText, vocalExpression, tone) ==
    {<<Open("speak"), Script(inputText, guideText, vocalExpression, tone), Close("speak")>>,
     <<Script(inputText, guideText, vocalExpression, tone)>>}

\* the values a text, a guide, an expression, a tone and a voice can have
PlainTexts == <<DEFAULT_TEXT, <<Chars("typed")>>, DEFAULT_INPUT, sampleText>>
InputValues == <<<<>>, DEFAULT_TEXT, <<Chars("typed")>>, DEFAULT_INPUT>>
GuideValues == <<<<>>, DEFAULT_GUIDE, DEFAULT_GUIDE_TEXT, <<Chars("guidance")>>>>
ExpressionValues == <<"Speech", "Recitation", "Song">>
ToneValues == <<"Standard", "Reverent", "Solemn">>
VoiceValues == <<"Charon", "Kore", "Orus">>

\* the place of a value in such a list, from 0
Digit(values, x) == (CHOOSE i \in DOMAIN values : values[i] = x) - 1

\* the audio the synthesis service makes is one 16-bit sample that tells the
\* text and the voice it was made for from every other text and voice
ScriptCode(of) ==
    ((Digit(InputValues, of[1]) * Len(GuideValues) + Digit(GuideValues, of[2]))
        * Len(ExpressionValues) + Digit(ExpressionValues, of[3]))
        * Len(ToneValues) + Digit(ToneValues, of[4])

TextCode(text) ==
    IF \E i \in DOMAIN text : IsScript(text[i])
    THEN LET i == CHOOSE k \in DOMAIN text : IsScript(text[k])
         IN  Len(PlainTexts) + ScriptCode(text[i].of) * 4 + (Len(text) - 1)
    ELSE Digit(PlainTexts, text)

SpeechCode(text, voiceName) == TextCode(text) * Len(VoiceValues) + Digit(VoiceValues, voiceName)

Speech(text, voiceName) ==
    btoa(<<SpeechCode(text, voiceName) % 256, SpeechCode(text, voiceName) \div 256>>)

\* what generateSpeech can resolve to: the payload, or the payload damaged
\* in transfer
SpeechResults(text, voiceName) == {Speech(text, voiceName), Speech(text, voiceName) \o <<"!">>}

\* getAiClient: the client, or the error thrown when the key is missing
getAiClient ==
    IF apiKey THEN Ok("GoogleGenAI") ELSE Err("API_KEY environment variable not set")

\* the error a service call rejects with: getAiClient throws before the try
\* block, the catch block replaces every error thrown inside it
ServiceError(message) ==
    IF IsErr(getAiClient) THEN getAiClient.name ELSE message

\* the dependencies of the effect that clears the outputs
Settings(a) == <<a.inputText, a.guideText, a.vocalExpression, a.tone, a.selectedVoice>>

clearOutputs(a) == [a EXCEPT !.ssml = <<>>, !.base64Audio = <<>>]

\* the state after the render that follows the updates giving a: the effect
\* on [inputText] has set the language of a blank text, and the effect on
\* [inputText, guideText, vocalExpression, tone, selectedVoice] has cleared
\* the outputs, if one of these changed
Rendered(a) ==
    LET b == IF a.inputText # app.inputText /\ trim(a.inputText) = <<>>
             THEN [a EXCEPT !.language = "Unknown"]
             ELSE a
    IN  IF Settings(b) # Settings(app) THEN clearOutputs(b) ELSE b

\* debounceTimeout.current after that render: the effect on [inputText]
\* clears the pending timer and, for a text that is not blank, sets a new one
\* whose callback holds the text
Debounced(a) ==
    IF a.inputText = app.inputText THEN debounceTimeout
    ELSE IF trim(a.inputText) = <<>> THEN null
    ELSE Str(a.inputText)

\* an error message
Message(text) == [tag |-> "message", text |-> text]

\* handleError: the message is shown and a timeout is scheduled
handleError(a, message) ==
    /\ app' = Rendered([a EXCEPT !.error = Message(message)])
    /\ timeouts' = Append(timeouts, message)

\* a user event
Click == clicks < MaxClicks /\ clicks' = clicks + 1

\* the first run of a handler that has not been started
FirstIdle(reqs, r) == reqs[r].at = "idle" /\ \A k \in DOMAIN reqs : k < r => reqs[k].at # "idle"

\* the user edits the input text
SetInputText(t) ==
    /\ Click
    /\ ~app.isLoading
    /\ t # app.inputText
    /\ app' = Rendered([app EXCEPT !.inputText = t])
    /\ debounceTimeout' = Debounced([app EXCEPT !.inputText = t])
    /\ UNCHANGED <<apiKey, researchReqs, detectReqs>>
    /\ UNCHANGED <<wavVars, decVars, playVars, playReqs, ssmlReqs, timeouts, voiceVars>>

\* the user shows or hides the pronunciation guide
ToggleGuide ==
    /\ Click
    /\ ~app.isLoading
    /\ app' = Rendered([app EXCEPT !.showGuide = ~@])
    /\ UNCHANGED <<wavVars, decVars, playVars, playReqs, ssmlReqs, timeouts, svcVars, voiceVars>>

\* the user edits the pronunciation guide, which is shown
SetGuideText(g) ==
    /\ Click
    /\ app.showGuide /\ ~app.isLoading
    /\ g # app.guideText
    /\ app' = Rendered([app EXCEPT !.guideText = g])
    /\ UNCHANGED <<wavVars, decVars, playVars, playReqs, ssmlReqs, timeouts, svcVars, voiceVars>>

SetVocalExpression(e) ==
    /\ Click
    /\ ~app.isLoading
    /\ e # app.vocalExpression
    /\ app' = Rendered([app EXCEPT !.vocalExpression = e])
    /\ UNCHANGED <<wavVars, decVars, playVars, playReqs, ssmlReqs, timeouts, svcVars, voiceVars>>

SetTone(t) ==
    /\ Click
    /\ ~app.isLoading
    /\ t # app.tone
    /\ app' = Rendered([app EXCEPT !.tone = t])
    /\ UNCHANGED <<wavVars, decVars, playVars, playReqs, ssmlReqs, timeouts, svcVars, voiceVars>>

SetSelectedVoice(v) ==
    /\ Click
    /\ ~app.isLoading
    /\ v # app.selectedVoice
    /\ app' = Rendered([app EXCEPT !.selectedVoice = v])
    /\ UNCHANGED <<wavVars, decVars, playVars, playReqs, ssmlReqs, timeouts, svcVars, voiceVars>>

handleReset ==
    /\ Click
    /\ ~app.isLoading
    /\ app' = Rendered(clearOutputs([app EXCEPT !.inputText = DEFAULT_TEXT,
                                                !.guideText = DEFAULT_GUIDE,
                                                !.aiReport = null]))
    /\ debounceTimeout' = Debounced([app EXCEPT !.inputText = DEFAULT_TEXT])
    /\ UNCHANGED <<apiKey, researchReqs, detectReqs>>
    /\ UNCHANGED <<wavVars, decVars, playVars, playReqs, ssmlReqs, timeouts, voiceVars>>

handleClear ==
    /\ Click
    /\ ~app.isLoading
    /\ app' = Rendered(clearOutputs([app EXCEPT !.inputText = <<>>,
                                                !.guideText = <<>>,
                                                !.aiReport = null]))
    /\ debounceTimeout' = Debounced([app EXCEPT !.inputText = <<>>])
    /\ UNCHANGED <<apiKey, researchReqs, detectReqs>>
    /\ UNCHANGED <<wavVars, decVars, playVars, playReqs, ssmlReqs, timeouts, voiceVars>>

\* the user dismisses the error alert
DismissError ==
    /\ Click
    /\ app.error # null
    /\ app' = Rendered([app EXCEPT !.error = null])
    /\ UNCHANGED <<wavVars, decVars, playVars, playReqs, ssmlReqs, timeouts, svcVars, voiceVars>>

\* a timeout of handleError fires
TimeoutFires ==
    /\ timeouts # <<>>
    /\ timeouts' = Tail(timeouts)
    /\ app' = Rendered([app EXCEPT !.error = null])
    /\ UNCHANGED <<wavVars, decVars, playVars, playReqs, ssmlReqs, clicks, svcVars, voiceVars>>

\* handleGenerateSSML, to its await: the button is enabled, so inputText is
\* not empty
handleGenerateSSML(g) ==
    /\ Click
    /\ ~app.isLoading /\ app.inputText # <<>>
    /\ FirstIdle(ssmlReqs, g)
    /\ app' = Rendered(clearOutputs([app EXCEPT !.isGeneratingSSML = TRUE, !.error = null]))
    /\ ssmlReqs' = [ssmlReqs EXCEPT ![g] =
           [at |-> "generateSSML", inputText |-> app.inputText, guideText |-> app.guideText,
            vocalExpression |-> app.vocalExpression, tone |-> app.tone,
            language |-> app.language]]
    /\ UNCHANGED <<wavVars, decVars, playVars, playReqs, timeouts, svcVars, voiceVars>>

\* generateSSML resolves: setSSML and the finally block
GenerateSSMLResolves(g) ==
    /\ ssmlReqs[g].at = "generateSSML"
    /\ apiKey
    /\ \E generatedSsml \in SsmlResults(ssmlReqs[g].inputText, ssmlReqs[g].guideText,
                                         ssmlReqs[g].vocalExpression, ssmlReqs[g].tone) :
          app' = Rendered([app EXCEPT !.ssml = generatedSsml, !.isGeneratingSSML = FALSE])
    /\ ssmlReqs' = [ssmlReqs EXCEPT ![g].at = "done"]
    /\ UNCHANGED <<wavVars, decVars, playVars, playReqs, timeouts, clicks, svcVars, voiceVars>>

\* generateSSML rejects: the catch and the finally block
GenerateSSMLRejects(g) ==
    /\ ssmlReqs[g].at = "generateSSML"
    /\ handleError([app EXCEPT !.isGeneratingSSML = FALSE],
                   ServiceError("Failed to communicate with the Gemini API for SSML generation."))
    /\ ssmlReqs' = [ssmlReqs EXCEPT ![g].at = "done"]
    /\ UNCHANGED <<wavVars, decVars, playVars, playReqs, clicks, svcVars, voiceVars>>

\* handlePlayAudio, to its first await: the button is enabled, so there is
\* text to play; with cached audio playAudio is called at once, without it
\* generateSpeech is
handlePlayAudio(h) ==
    /\ Click
    /\ ~app.isLoading /\ ~(app.inputText = <<>> /\ app.ssml = <<>>)
    /\ FirstIdle(playReqs, h)
    /\ app' = Rendered([app EXCEPT !.isPlaying = TRUE, !.error = null])
    /\ LET textToPlay == IF app.ssml # <<>> THEN app.ssml ELSE app.inputText
       IN  IF app.base64Audio # <<>>
           THEN /\ playReqs' = [playReqs EXCEPT ![h] =
                       [at |-> "playAudio", text |-> textToPlay, voice |-> app.selectedVoice,
                        sample |-> FALSE]]
                /\ Invoke(h, app.base64Audio)
           ELSE /\ playReqs' = [playReqs EXCEPT ![h] =
                       [at |-> "generateSpeech", text |-> textToPlay, voice |-> app.selectedVoice,
                        sample |-> FALSE]]
                /\ UNCHANGED playVars
    /\ UNCHANGED <<wavVars, decVars, ssmlReqs, timeouts, svcVars, voiceVars>>

\* generateSpeech resolves: setBase64Audio, and playAudio is called
GenerateSpeechResolves(h) ==
    /\ playReqs[h].at = "generateSpeech"
    /\ apiKey
    /\ \E audioData \in SpeechResults(playReqs[h].text, playReqs[h].voice) :
          /\ app' = Rendered([app EXCEPT !.base64Audio = audioData])
          /\ Invoke(h, audioData)
    /\ playReqs' = [playReqs EXCEPT ![h].at = "playAudio"]
    /\ UNCHANGED <<wavVars, decVars, ssmlReqs, timeouts, clicks, svcVars, voiceVars>>

\* generateSpeech rejects: the catch and the finally block
GenerateSpeechRejects(h) ==
    /\ playReqs[h].at = "generateSpeech"
    /\ handleError([app EXCEPT !.isPlaying = FALSE],
                   ServiceError("Failed to communicate with the Gemini API for speech synthesis."))
    /\ playReqs' = [playReqs EXCEPT ![h].at = "done"]
    /\ UNCHANGED <<wavVars, decVars, playVars, ssmlReqs, clicks, svcVars, voiceVars>>

\* the promise of playAudio has settled: the catch, if it rejected, and the
\* finally block
PlayAudioSettles(h) ==
    /\ playReqs[h].at = "playAudio"
    /\ pc[h] \in {"resolved", "rejected"}
    /\ IF pc[h] = "rejected"
       THEN handleError([app EXCEPT !.isPlaying = FALSE], error[h].name)
       ELSE /\ app' = Rendered([app EXCEPT !.isPlaying = FALSE])
            /\ UNCHANGED timeouts
    /\ playReqs' = [playReqs EXCEPT ![h].at = "done"]
    /\ UNCHANGED <<wavVars, decVars, playVars, ssmlReqs, clicks, svcVars, voiceVars>>

\* handleExportAudio: the button is enabled, so there is cached audio
handleExportAudio ==
    /\ Click
    /\ ~app.isLoading /\ app.base64Audio # <<>>
    /\ wavInput' = app.base64Audio
    /\ wavResult' = createWavBlob(app.base64Audio)
    /\ IF IsErr(createWavBlob(app.base64Audio))
       THEN handleError(app, "Failed to create WAV file.")
       ELSE UNCHANGED <<app, timeouts>>
    /\ UNCHANGED <<decVars, playVars, playReqs, ssmlReqs, svcVars, voiceVars>>

\* a run that can be started: one not started yet, or one that is over
FirstFree(reqs, r) ==
    /\ reqs[r].at \in {"idle", "done"}
    /\ \A k \in DOMAIN reqs : k < r => reqs[k].at \notin {"idle", "done"}

\* handleAiResearch, to its await: the button is enabled, so inputText is not
\* empty
handleAiResearch(r) ==
    /\ Click
    /\ ~app.isLoading /\ app.inputText # <<>>
    /\ FirstFree(researchReqs, r)
    /\ app' = Rendered([app EXCEPT !.isResearching = TRUE, !.aiReport = null, !.error = null])
    /\ researchReqs' = [researchReqs EXCEPT ![r] =
           [at |-> "performAiResearch", inputText |-> app.inputText,
            language |-> app.language]]
    /\ UNCHANGED <<wavVars, decVars, playVars, playReqs, ssmlReqs, timeouts, voiceVars>>
    /\ UNCHANGED <<apiKey, detectReqs, debounceTimeout>>

\* performAiResearch resolves: setAiReport and the finally block
PerformAiResearchResolves(r) ==
    /\ researchReqs[r].at = "performAiResearch"
    /\ apiKey
    /\ \E report \in Reports :
          app' = Rendered([app EXCEPT !.aiReport = report, !.isResearching = FALSE])
    /\ researchReqs' = [researchReqs EXCEPT ![r].at = "done"]
    /\ UNCHANGED <<wavVars, decVars, playVars, playReqs, ssmlReqs, timeouts, clicks, voiceVars>>
    /\ UNCHANGED <<apiKey, detectReqs, debounceTimeout>>

\* performAiResearch rejects: the catch and the finally block
PerformAiResearchRejects(r) ==
    /\ researchReqs[r].at = "performAiResearch"
    /\ handleError([app EXCEPT !.isResearching = FALSE],
                   ServiceError("Failed to communicate with the Gemini API for AI research."))
    /\ researchReqs' = [researchReqs EXCEPT ![r].at = "done"]
    /\ UNCHANGED <<wavVars, decVars, playVars, playReqs, ssmlReqs, clicks, voiceVars>>
    /\ UNCHANGED <<apiKey, detectReqs, debounceTimeout>>

\* the user dismisses the report
DismissReport ==
    /\ Click
    /\ app.aiReport # null
    /\ app' = Rendered([app EXCEPT !.aiReport = null])
    /\ UNCHANGED <<wavVars, decVars, playVars, playReqs, ssmlReqs, timeouts, svcVars, voiceVars>>

\* handleApplySuggestions without setTone
handleApplySuggestionsKeepTone ==
    /\ Click
    /\ IF app.aiReport = null
       THEN UNCHANGED app
       ELSE app' = Rendered([app EXCEPT !.guideText = app.aiReport.guidance,
                                        !.selectedVoice = app.aiReport.recommendedVoice,
                                        !.vocalExpression = app.aiReport.recommendedVocalExpression,
                                        !.showGuide = TRUE,
                                        !.aiReport = null])
    /\ UNCHANGED <<wavVars, decVars, playVars, playReqs, ssmlReqs, timeouts, svcVars, voiceVars>>

\* handleApplySuggestions; its button is rendered with the report, the early
\* return is for a call without one
handleApplySuggestions ==
    /\ Click
    /\ IF app.aiReport = null
       THEN UNCHANGED app
       ELSE app' = Rendered([app EXCEPT !.guideText = app.aiReport.guidance,
                                        !.selectedVoice = app.aiReport.recommendedVoice,
                                        !.vocalExpression = app.aiReport.recommendedVocalExpression,
                                        !.tone = app.aiReport.recommendedTone,
                                        !.showGuide = TRUE,
                                        !.aiReport = null])
    /\ UNCHANGED <<wavVars, decVars, playVars, playReqs, ssmlReqs, timeouts, svcVars, voiceVars>>

\* the debounce timer fires 500 ms after the last change of inputText: its
\* callback calls detectLanguage with the text it holds; without a key the
\* call rejects at once and the catch block sets the language
DebounceFires(d) ==
    /\ debounceTimeout # null
    /\ FirstFree(detectReqs, d)
    /\ debounceTimeout' = null
    /\ IF IsOk(getAiClient)
       THEN /\ detectReqs' = [detectReqs EXCEPT ![d] =
                   [at |-> "detectLanguage", text |-> debounceTimeout.val,
                    promise |-> "pending"]]
            /\ UNCHANGED app
       ELSE /\ detectReqs' = [detectReqs EXCEPT ![d] =
                   [at |-> "done", text |-> debounceTimeout.val, promise |-> "rejected"]]
            /\ app' = Rendered([app EXCEPT !.language = "Unknown"])
    /\ UNCHANGED <<wavVars, decVars, playVars, playReqs, ssmlReqs, timeouts, clicks, voiceVars>>
    /\ UNCHANGED <<apiKey, researchReqs>>

\* detectLanguage resolves, with the language or, when the service failed,
\* with "Unknown": setLanguage
DetectLanguageResolves(d) ==
    /\ detectReqs[d].at = "detectLanguage"
    /\ \E detectedLang \in {LanguageOf(detectReqs[d].text), "Unknown"} :
          app' = Rendered([app EXCEPT !.language = detectedLang])
    /\ detectReqs' = [detectReqs EXCEPT ![d].at = "done", ![d].promise = "resolved"]
    /\ UNCHANGED <<wavVars, decVars, playVars, playReqs, ssmlReqs, timeouts, clicks, voiceVars>>
    /\ UNCHANGED <<apiKey, researchReqs, debounceTimeout>>

\* the App after its first render, with or without an API key: the effect
\* on [inputText] has set the debounce timer for the default text
InitAppPlay ==
    /\ InitApp
    /\ apiKey \in BOOLEAN
    /\ debounceTimeout = Str(DEFAULT_TEXT)
    /\ InitIdleVoices
    /\ InitIdlePlay
    /\ InitIdleWav
    /\ InitIdleDec

\* the App with the generation, playback and export handlers; the research
\* handlers and the language detection are followed by NextResearch and
\* NextLanguage
NextApp ==
    \/ \E t \in InputTexts : SetInputText(t)
    \/ ToggleGuide
    \/ \E g \in GuideTexts : SetGuideText(g)
    \/ \E e \in vocalExpressions : SetVocalExpression(e)
    \/ \E t \in tones : SetTone(t)
    \/ \E v \in voices : SetSelectedVoice(v)
    \/ handleReset
    \/ handleClear
    \/ DismissError
    \/ TimeoutFires
    \/ \E g \in SsmlRuns :
          \/ handleGenerateSSML(g)
          \/ GenerateSSMLResolves(g)
          \/ GenerateSSMLRejects(g)
    \/ \E h \in Calls :
          \/ handlePlayAudio(h)
          \/ GenerateSpeechResolves(h)
          \/ GenerateSpeechRejects(h)
          \/ PlayOpenContext(h)
          \/ PlayDecode(h)
          \/ PlayInt16View(h)
          \/ PlayCreateBuffer(h)
          \/ PlayNormalize(h)
          \/ PlayCreateSource(h)
          \/ PlayConnect(h)
          \/ PlayStart(h)
          \/ PlayEnded(h)
          \/ PlayAudioSettles(h)
    \/ handleExportAudio

SpecApp == InitAppPlay /\ [][NextApp]_vars

\* the App with the research handlers: the user edits the settings, asks for
\* research on the text and the language detected, applies or dismisses the
\* report
NextResearch ==
    \/ \E t \in InputTexts : SetInputText(t)
    \/ ToggleGuide
    \/ \E g \in GuideTexts : SetGuideText(g)
    \/ \E e \in vocalExpressions : SetVocalExpression(e)
    \/ \E t \in tones : SetTone(t)
    \/ \E v \in voices : SetSelectedVoice(v)
    \/ handleReset
    \/ handleClear
    \/ DismissError
    \/ TimeoutFires
    \/ \E r \in ResearchRuns :
          \/ handleAiResearch(r)
          \/ PerformAiResearchResolves(r)
          \/ PerformAiResearchRejects(r)
    \/ DismissReport
    \/ handleApplySuggestions
    \/ \E d \in DetectRuns :
          \/ DebounceFires(d)
          \/ DetectLanguageResolves(d)

SpecResearch == InitAppPlay /\ [][NextResearch]_vars

\* the App with the language detection: the user edits the input text, the
\* debounce timer fires, detectLanguage settles
NextLanguage ==
    \/ \E t \in InputTexts : SetInputText(t)
    \/ handleReset
    \/ handleClear
    \/ \E d \in DetectRuns :
          \/ DebounceFires(d)
          \/ DetectLanguageResolves(d)

SpecLanguage == InitAppPlay /\ [][NextLanguage]_vars

----------------------------------------------------------------------------
(* validateSSML *)

startsWith(text, tok) == text # <<>> /\ Head(text) = tok
endsWith(text, tok) == text # <<>> /\ text[Len(text)] = tok

\* DOMParser.parseFromString(text, 'application/xml'): the tag name of the
\* document element, or "parsererror" when the text is not one well-formed
\* element with only white space around it. open is the sequence of the
\* elements not yet closed, root the document element once seen ("" before).
RECURSIVE parseXml(_, _, _)
parseXml(text, open, root) ==
    IF text = <<>>
    THEN IF open = <<>> /\ root # "" THEN root ELSE "parsererror"
    ELSE LET tok == Head(text)
             rest == Tail(text)
         IN  CASE tok.kind = "space" -> parseXml(rest, open, root)
               [] tok.kind = "text" ->
                    IF open = <<>> THEN "parsererror" ELSE parseXml(rest, open, root)
               [] tok.kind = "open" ->
                    IF open = <<>> /\ root # "" THEN "parsererror"
                    ELSE parseXml(rest, Append(open, tok.name),
                                  IF root = "" THEN tok.name ELSE root)
               [] tok.kind = "empty" ->
                    IF open # <<>> THEN parseXml(rest, open, root)
                    ELSE IF root # "" THEN "parsererror"
                    ELSE parseXml(rest, open, tok.name)
               [] tok.kind = "close" ->
                    IF open = <<>> \/ open[Len(open)] # tok.name THEN "parsererror"
                    ELSE parseXml(rest, SubSeq(open, 1, Len(open) - 1), root)

validateSSML(ssml) ==
    IF ssml = <<>> \/ trim(ssml) = <<>>
    THEN [isValid |-> FALSE, message |-> "SSML script is empty."]
    ELSE IF ~startsWith(trim(ssml), Open("speak")) \/ ~endsWith(trim(ssml), Close("speak"))
    THEN [isValid |-> FALSE, message |-> "SSML must be wrapped in a single <speak> tag."]
    ELSE IF parseXml(ssml, <<>>, "") = "parsererror"
    THEN [isValid |-> FALSE,
          message |-> "Invalid SSML syntax. Check for unclosed tags or invalid characters."]
    ELSE IF parseXml(ssml, <<>>, "") # "speak"
    THEN [isValid |-> FALSE,
          message |-> "The root element of the SSML script must be <speak>."]
    ELSE [isValid |-> TRUE, message |-> null]

----------------------------------------------------------------------------
(* The App component, v1.8.1 *)


InputTexts181 == {<<>>, DEFAULT_INPUT, <<Chars("typed")>>}
GuideTexts181 == {<<>>, DEFAULT_GUIDE_TEXT}

\* what generateSSML can resolve to in the model of this version: also a script
\* with a tag left open inside the <speak> element
SsmlResults181(inputText, guideText, vocalExpression, tone) ==
    SsmlResults(inputText, guideText, vocalExpression, tone)
        \cup {<<Open("speak"), Open("prosody"),
                Script(inputText, guideText, vocalExpression, tone), Close("speak")>>}

\* the state after the first render
App181Initial ==
    [inputText |-> DEFAULT_INPUT,
     guideText |-> DEFAULT_GUIDE_TEXT,
     ssmlOutput |-> <<>>,
     audioData |-> null,
     selectedVoice |-> "Kore",
     vocalExpression |-> "Speech",
     tone |-> "Standard",
     showSpellGuide |-> FALSE,
     isLoadingSSML |-> FALSE,
     isLoadingAudio |-> FALSE,
     isLoadingResearch |-> FALSE,
     loadingSampleVoice |-> null,
     aiResearchReport |-> null,
     error |-> null,
     voiceSampleError |-> null,
     detectedLanguage |-> ""]

isProcessing ==
    app.isLoadingSSML \/ app.isLoadingAudio \/ app.isLoadingResearch
        \/ app.loadingSampleVoice # null

\* the state after the render that follows the updates giving a: the effect
\* on [vocalExpression, tone] has run if one of them changed
Rendered181(a) ==
    IF <<a.vocalExpression, a.tone>> # <<app.vocalExpression, app.tone>>
    THEN [a EXCEPT !.ssmlOutput = <<>>, !.audioData = null]
    ELSE a

SetInputText181(t) ==
    /\ Click
    /\ ~isProcessing
    /\ t # app.inputText
    /\ app' = Rendered181([app EXCEPT !.inputText = t])
    /\ UNCHANGED <<wavVars, decVars, playVars, playReqs, ssmlReqs, timeouts, svcVars, voiceVars>>

handleClearInput ==
    /\ Click
    /\ app.inputText # <<>>
    /\ app' = Rendered181([app EXCEPT !.inputText = <<>>])
    /\ UNCHANGED <<wavVars, decVars, playVars, playReqs, ssmlReqs, timeouts, svcVars, voiceVars>>

handleResetInput ==
    /\ Click
    /\ app.inputText # DEFAULT_INPUT
    /\ app' = Rendered181([app EXCEPT !.inputText = DEFAULT_INPUT])
    /\ UNCHANGED <<wavVars, decVars, playVars, playReqs, ssmlReqs, timeouts, svcVars, voiceVars>>

ToggleSpellGuide ==
    /\ Click
    /\ app' = Rendered181([app EXCEPT !.showSpellGuide = ~@])
    /\ UNCHANGED <<wavVars, decVars, playVars, playReqs, ssmlReqs, timeouts, svcVars, voiceVars>>

SetGuideText181(g) ==
    /\ Click
    /\ app.showSpellGuide /\ ~isProcessing
    /\ g # app.guideText
    /\ app' = Rendered181([app EXCEPT !.guideText = g])
    /\ UNCHANGED <<wavVars, decVars, playVars, playReqs, ssmlReqs, timeouts, svcVars, voiceVars>>

SetVocalExpression181(e) ==
    /\ Click
    /\ ~isProcessing
    /\ e # app.vocalExpression
    /\ app' = Rendered181([app EXCEPT !.vocalExpression = e])
    /\ UNCHANGED <<wavVars, decVars, playVars, playReqs, ssmlReqs, timeouts, svcVars, voiceVars>>

SetTone181(t) ==
    /\ Click
    /\ ~isProcessing
    /\ t # app.tone
    /\ app' = Rendered181([app EXCEPT !.tone = t])
    /\ UNCHANGED <<wavVars, decVars, playVars, playReqs, ssmlReqs, timeouts, svcVars, voiceVars>>

SetSelectedVoice181(v) ==
    /\ Click
    /\ ~isProcessing
    /\ v # app.selectedVoice
    /\ app' = Rendered181([app EXCEPT !.selectedVoice = v])
    /\ UNCHANGED <<wavVars, decVars, playVars, playReqs, ssmlReqs, timeouts, svcVars, voiceVars>>

handleDismissError ==
    /\ Click
    /\ app.error # null
    /\ app' = Rendered181([app EXCEPT !.error = null])
    /\ UNCHANGED <<wavVars, decVars, playVars, playReqs, ssmlReqs, timeouts, svcVars, voiceVars>>

\* handleGenerateSSML, to its first await: the button is enabled, so the
\* input is not blank
handleGenerateSSML181(g) ==
    /\ Click
    /\ ~isProcessing /\ trim(app.inputText) # <<>>
    /\ FirstIdle(ssmlReqs, g)
    /\ app' = Rendered181([app EXCEPT !.isLoadingSSML = TRUE, !.error = null,
                                      !.ssmlOutput = <<>>, !.audioData = null])
    /\ ssmlReqs' = [ssmlReqs EXCEPT ![g] =
           [at |-> "detectLanguage", inputText |-> app.inputText,
            guideText |-> app.guideText, vocalExpression |-> app.vocalExpression,
            tone |-> app.tone]]
    /\ UNCHANGED <<wavVars, decVars, playVars, playReqs, timeouts, svcVars, voiceVars>>

\* detectLanguage resolves, with the language or, when the service failed,
\* with "Unknown": setDetectedLanguage, and generateSSML is called
DetectLanguageResolves181(g) ==
    /\ ssmlReqs[g].at = "detectLanguage"
    /\ apiKey
    /\ \E lang \in {LanguageOf(ssmlReqs[g].inputText), "Unknown"} :
          app' = Rendered181([app EXCEPT !.detectedLanguage = lang])
    /\ ssmlReqs' = [ssmlReqs EXCEPT ![g].at = "generateSSML"]
    /\ UNCHANGED <<wavVars, decVars, playVars, playReqs, timeouts, clicks, svcVars, voiceVars>>

GenerateSSMLResolves181(g) ==
    /\ ssmlReqs[g].at = "generateSSML"
    /\ apiKey
    /\ \E result \in SsmlResults181(ssmlReqs[g].inputText, ssmlReqs[g].guideText,
                                      ssmlReqs[g].vocalExpression, ssmlReqs[g].tone) :
          app' = Rendered181([app EXCEPT !.ssmlOutput = result, !.isLoadingSSML = FALSE])
    /\ ssmlReqs' = [ssmlReqs EXCEPT ![g].at = "done"]
    /\ UNCHANGED <<wavVars, decVars, playVars, playReqs, timeouts, clicks, svcVars, voiceVars>>

\* detectLanguage rejects, which it does when the key is missing, or
\* generateSSML rejects: the catch and the finally block
GenerateSSMLRejects181(g) ==
    /\ \/ ssmlReqs[g].at = "detectLanguage" /\ ~apiKey
       \/ ssmlReqs[g].at = "generateSSML"
    /\ app' = Rendered181([app EXCEPT
           !.error = Message("Failed to generate SSML. Please check your input and try again."),
           !.isLoadingSSML = FALSE])
    /\ ssmlReqs' = [ssmlReqs EXCEPT ![g].at = "done"]
    /\ UNCHANGED <<wavVars, decVars, playVars, playReqs, timeouts, clicks, svcVars, voiceVars>>

\* handlePlayAudio, to its await: the button is enabled, so the script is not
\* blank; a script that fails the validation gives an error and no request
handlePlayAudio181(h) ==
    /\ Click
    /\ ~isProcessing /\ trim(app.ssmlOutput) # <<>>
    /\ FirstIdle(playReqs, h)
    /\ LET validation == validateSSML(app.ssmlOutput)
       IN  IF ~validation.isValid
           THEN /\ app' = Rendered181([app EXCEPT !.error =
                       Message(<<"SSML Validation Error: ", validation.message>>)])
                /\ UNCHANGED playReqs
           ELSE /\ app' = Rendered181([app EXCEPT !.isLoadingAudio = TRUE, !.error = null])
                /\ playReqs' = [playReqs EXCEPT ![h] =
                       [at |-> "generateSpeech", text |-> app.ssmlOutput,
                        voice |-> app.selectedVoice, sample |-> FALSE]]
    /\ UNCHANGED <<wavVars, decVars, playVars, ssmlReqs, timeouts, svcVars, voiceVars>>

\* handlePlayVoiceSample(voice), to its await
handlePlayVoiceSample(h, voice) ==
    /\ Click
    /\ ~isProcessing
    /\ FirstIdle(playReqs, h)
    /\ app' = Rendered181([app EXCEPT !.loadingSampleVoice = Str(voice),
                                      !.voiceSampleError = null, !.error = null])
    /\ playReqs' = [playReqs EXCEPT ![h] =
           [at |-> "generateSpeech", text |-> sampleText, voice |-> voice, sample |-> TRUE]]
    /\ UNCHANGED <<wavVars, decVars, playVars, ssmlReqs, timeouts, svcVars, voiceVars>>

\* generateSpeech resolves: handlePlayAudio sets audioData; playAudio is called
GenerateSpeechResolves181(h) ==
    /\ playReqs[h].at = "generateSpeech"
    /\ apiKey
    /\ \E newAudioData \in SpeechResults(playReqs[h].text, playReqs[h].voice) :
          /\ app' = IF playReqs[h].sample THEN app
                    ELSE Rendered181([app EXCEPT !.audioData = Str(newAudioData)])
          /\ Invoke(h, newAudioData)
    /\ playReqs' = [playReqs EXCEPT ![h].at = "playAudio"]
    /\ UNCHANGED <<wavVars, decVars, ssmlReqs, timeouts, clicks, svcVars, voiceVars>>

\* the catch and the finally block of the handler of run h
Settled181(h, failed) ==
    IF playReqs[h].sample
    THEN [app EXCEPT !.loadingSampleVoice = null,
                     !.voiceSampleError =
                         IF failed
                         THEN Message(<<"Failed to play sample for ", playReqs[h].voice, ".">>)
                         ELSE @]
    ELSE [app EXCEPT !.isLoadingAudio = FALSE,
                     !.error =
                         IF failed
                         THEN Message("Failed to generate or play audio. The API may have rejected the SSML.")
                         ELSE @]

GenerateSpeechRejects181(h) ==
    /\ playReqs[h].at = "generateSpeech"
    /\ app' = Rendered181(Settled181(h, TRUE))
    /\ playReqs' = [playReqs EXCEPT ![h].at = "done"]
    /\ UNCHANGED <<wavVars, decVars, playVars, ssmlReqs, timeouts, clicks, svcVars, voiceVars>>

PlayAudioSettles181(h) ==
    /\ playReqs[h].at = "playAudio"
    /\ pc[h] \in {"resolved", "rejected"}
    /\ app' = Rendered181(Settled181(h, pc[h] = "rejected"))
    /\ playReqs' = [playReqs EXCEPT ![h].at = "done"]
    /\ UNCHANGED <<wavVars, decVars, playVars, ssmlReqs, timeouts, clicks, svcVars, voiceVars>>

\* handleExportAudio: the button is enabled, so there is audio data
handleExportAudio181 ==
    /\ Click
    /\ app.audioData # null
    /\ wavInput' = app.audioData.val
    /\ wavResult' = createWavBlob(app.audioData.val)
    /\ app' = IF IsErr(createWavBlob(app.audioData.val))
              THEN Rendered181([app EXCEPT
                       !.error = Message("Failed to create audio file for export.")])
              ELSE app
    /\ UNCHANGED <<decVars, playVars, playReqs, ssmlReqs, timeouts, svcVars, voiceVars>>

\* what performAiResearch can resolve to in the model of this version: also a
\* report without its reasoning
Reports181 ==
    Reports \cup {[Report("Kore", "Recitation", "Reverent") EXCEPT !.reasoning = null]}

\* the test handleAiResearch makes of the result
ValidReport(result) ==
    /\ result.recommendedVoice \in voices
    /\ result.recommendedVocalExpression \in vocalExpressions
    /\ result.recommendedTone \in tones
    /\ result.reasoning # null

\* handleAiResearch, to its first await: the button is enabled, so the input
\* is not blank
handleAiResearch181(r) ==
    /\ Click
    /\ ~isProcessing /\ trim(app.inputText) # <<>>
    /\ FirstFree(researchReqs, r)
    /\ app' = Rendered181([app EXCEPT !.isLoadingResearch = TRUE, !.error = null,
                                      !.aiResearchReport = null])
    /\ researchReqs' = [researchReqs EXCEPT ![r] =
           [at |-> "detectLanguage", inputText |-> app.inputText]]
    /\ UNCHANGED <<wavVars, decVars, playVars, playReqs, ssmlReqs, timeouts, voiceVars>>
    /\ UNCHANGED <<apiKey, detectReqs, debounceTimeout>>

\* detectLanguage resolves: setDetectedLanguage, and performAiResearch is
\* called
ResearchLanguageResolves181(r) ==
    /\ researchReqs[r].at = "detectLanguage"
    /\ apiKey
    /\ \E lang \in {LanguageOf(researchReqs[r].inputText), "Unknown"} :
          app' = Rendered181([app EXCEPT !.detectedLanguage = lang])
    /\ researchReqs' = [researchReqs EXCEPT ![r].at = "performAiResearch"]
    /\ UNCHANGED <<wavVars, decVars, playVars, playReqs, ssmlReqs, timeouts, clicks, voiceVars>>
    /\ UNCHANGED <<apiKey, detectReqs, debounceTimeout>>

\* performAiResearch resolves: a result that passes the test is shown, one
\* that does not is thrown to the catch block; the finally block
PerformAiResearchResolves181(r) ==
    /\ researchReqs[r].at = "performAiResearch"
    /\ apiKey
    /\ \E result \in Reports181 :
          app' = Rendered181(
              IF ValidReport(result)
              THEN [app EXCEPT !.aiResearchReport = result, !.isLoadingResearch = FALSE]
              ELSE [app EXCEPT
                       !.error = Message("Failed to perform AI research. Please try again."),
                       !.isLoadingResearch = FALSE])
    /\ researchReqs' = [researchReqs EXCEPT ![r].at = "done"]
    /\ UNCHANGED <<wavVars, decVars, playVars, playReqs, ssmlReqs, timeouts, clicks, voiceVars>>
    /\ UNCHANGED <<apiKey, detectReqs, debounceTimeout>>

\* detectLanguage rejects, which it does when the key is missing, or
\* performAiResearch rejects: the catch and the finally block
PerformAiResearchRejects181(r) ==
    /\ \/ researchReqs[r].at = "detectLanguage" /\ ~apiKey
       \/ researchReqs[r].at = "performAiResearch"
    /\ app' = Rendered181([app EXCEPT
           !.error = Message("Failed to perform AI research. Please try again."),
           !.isLoadingResearch = FALSE])
    /\ researchReqs' = [researchReqs EXCEPT ![r].at = "done"]
    /\ UNCHANGED <<wavVars, decVars, playVars, playReqs, ssmlReqs, timeouts, clicks, voiceVars>>
    /\ UNCHANGED <<apiKey, detectReqs, debounceTimeout>>

handleDismissReport ==
    /\ Click
    /\ app.aiResearchReport # null
    /\ app' = Rendered181([app EXCEPT !.aiResearchReport = null])
    /\ UNCHANGED <<wavVars, decVars, playVars, playReqs, ssmlReqs, timeouts, svcVars, voiceVars>>

\* handleApplySuggestions; its button is rendered with the report, the early
\* return is for a call without one
handleApplySuggestions181 ==
    /\ Click
    /\ IF app.aiResearchReport = null
       THEN UNCHANGED app
       ELSE app' = Rendered181(
                [app EXCEPT !.guideText = app.aiResearchReport.guidance,
                            !.selectedVoice = app.aiResearchReport.recommendedVoice,
                            !.vocalExpression = app.aiResearchReport.recommendedVocalExpression,
                            !.tone = app.aiResearchReport.recommendedTone,
                            !.aiResearchReport = null])
    /\ UNCHANGED <<wavVars, decVars, playVars, playReqs, ssmlReqs, timeouts, svcVars, voiceVars>>

InitApp181 ==
    /\ app = App181Initial
    /\ playReqs = [h \in Calls |-> IdleRun]
    /\ ssmlReqs = [g \in SsmlRuns |-> IdleRun]
    /\ researchReqs = [r \in ResearchRuns |-> IdleRun]
    /\ detectReqs = [d \in DetectRuns |-> IdleRun]
    /\ timeouts = <<>>
    /\ clicks = 0
    /\ apiKey \in BOOLEAN
    /\ debounceTimeout = null
    /\ InitIdleVoices
    /\ InitIdlePlay
    /\ InitIdleWav
    /\ InitIdleDec

NextApp181 ==
    \/ \E t \in InputTexts181 : SetInputText181(t)
    \/ handleClearInput
    \/ handleResetInput
    \/ ToggleSpellGuide
    \/ \E g \in GuideTexts181 : SetGuideText181(g)
    \/ \E e \in vocalExpressions : SetVocalExpression181(e)
    \/ \E t \in tones : SetTone181(t)
    \/ \E v \in voices : SetSelectedVoice181(v)
    \/ handleDismissError
    \/ \E g \in SsmlRuns :
          \/ handleGenerateSSML181(g)
          \/ DetectLanguageResolves181(g)
          \/ GenerateSSMLResolves181(g)
          \/ GenerateSSMLRejects181(g)
    \/ \E h \in Calls :
          \/ handlePlayAudio181(h)
          \/ \E voice \in voices : handlePlayVoiceSample(h, voice)
          \/ GenerateSpeechResolves181(h)
          \/ GenerateSpeechRejects181(h)
          \/ PlayOpenContext(h)
          \/ PlayDecode(h)
          \/ PlayInt16View(h)
          \/ PlayCreateBuffer(h)
          \/ PlayNormalize(h)
          \/ PlayCreateSource(h)
          \/ PlayConnect(h)
          \/ PlayStart(h)
          \/ PlayEnded(h)
          \/ PlayAudioSettles181(h)
    \/ handleExportAudio181

SpecApp181 == InitApp181 /\ [][NextApp181]_vars

\* the v1.8.1 App with the research handlers
NextResearch181 ==
    \/ \E t \in InputTexts181 : SetInputText181(t)
    \/ handleClearInput
    \/ handleResetInput
    \/ ToggleSpellGuide
    \/ \E g \in GuideTexts181 : SetGuideText181(g)
    \/ \E e \in vocalExpressions : SetVocalExpression181(e)
    \/ \E t \in tones : SetTone181(t)
    \/ \E v \in voices : SetSelectedVoice181(v)
    \/ handleDismissError
    \/ \E r \in ResearchRuns :
          \/ handleAiResearch181(r)
          \/ ResearchLanguageResolves181(r)
          \/ PerformAiResearchResolves181(r)
          \/ PerformAiResearchRejects181(r)
    \/ handleDismissReport
    \/ handleApplySuggestions181

SpecResearch181 == InitApp181 /\ [][NextResearch181]_vars

----------------------------------------------------------------------------
(* Properties of the App, v2.0.0, under SpecApp *)

\* the audio of invocation c is audible: started and not yet at its end
Audible(c) == Started(c) /\ ~source[c].val.ended

\* C12: playAudio is fire-and-forget: its promise is resolved by the step that
\* starts playback, whether or not the audio has ended, and handlePlayAudio
\* can then run its finally block, so isPlaying can be false while the audio
\* is audible.
C12_FireAndForget ==
    \A h \in Calls :
        /\ Started(h) <=> pc[h] = "resolved"
        /\ (playReqs[h].at = "playAudio" /\ Started(h)) => ENABLED PlayAudioSettles(h)

\* handlePlayAudio has finished and isPlaying is false while the audio it
\* started is audible
C12_Witness ==
    /\ ~app.isPlaying
    /\ \E h \in Calls :
          /\ playReqs[h].at = "done"
          /\ pc[h] = "resolved"
          /\ Audible(h)

\* the runs of handlePlayAudio and handlePlayVoiceSample between their start
\* and their finally block
InFlight == {h \in Calls : playReqs[h].at \in {"generateSpeech", "playAudio"}}

\* C14: the App serializes playback requests: while one play-audio or
\* play-voice-sample request is in flight no second one can be started, so at
\* most one is in flight, and at most one invocation of playAudio.
C14_SingleFlight ==
    /\ Cardinality(InFlight) <= 1
    /\ Cardinality({c \in Calls : Running(c)}) <= 1

\* C20: Play Audio validates the script before synthesis: generateSpeech is
\* never awaited by handlePlayAudio for a text that fails validateSSML.
C20_ValidatedBeforeSynthesis ==
    \A h \in Calls :
        (playReqs[h].at = "generateSpeech" /\ ~playReqs[h].sample) =>
            validateSSML(playReqs[h].text).isValid

----------------------------------------------------------------------------
(* Properties of the App, v1.8.1, under SpecApp181 *)

\* C19: whenever a key setting (input text, pronunciation guide, vocal
\* expression, tone or selected voice) changes, the generated SSML and the
\* audio data are empty immediately after the change.
C19_SettingsSync ==
    [][Settings(app') # Settings(app) =>
          (app'.ssmlOutput = <<>> /\ app'.audioData = null)]_vars

\* the same of v2.0.0, under SpecApp
SettingsSync200 ==
    [][Settings(app') # Settings(app) =>
          (app'.ssml = <<>> /\ app'.base64Audio = <<>>)]_vars

----------------------------------------------------------------------------
(* Properties of the research handlers, under SpecResearch *)

\* the runs of handleAiResearch and handleGenerateSSML that are awaiting
\* their request
ResearchInFlight == {r \in ResearchRuns : researchReqs[r].at = "performAiResearch"}
SsmlInFlight == {g \in SsmlRuns : ssmlReqs[g].at = "generateSSML"}

\* C21: a loading indicator is shown for every async process: while a
\* research, SSML-generation or play request is in flight, isResearching,
\* isGeneratingSSML or isPlaying is true.
C21_LoadingShown ==
    /\ ResearchInFlight # {} => app.isResearching
    /\ SsmlInFlight # {} => app.isGeneratingSSML
    /\ InFlight # {} => app.isPlaying

\* what the claim says of a call of handleApplySuggestions
Applied ==
    IF app.aiReport = null
    THEN app' = app
    ELSE /\ app'.guideText = app.aiReport.guidance
         /\ app'.selectedVoice = app.aiReport.recommendedVoice
         /\ app'.vocalExpression = app.aiReport.recommendedVocalExpression
         /\ app'.tone = app.aiReport.recommendedTone
         /\ app'.aiReport = null

\* C22: Apply Suggestions applies all AI recommendations: with a report
\* present, afterwards guideText, selectedVoice, vocalExpression and tone are
\* the report's guidance, recommendedVoice, recommendedVocalExpression and
\* recommendedTone and the report is dismissed; with no report, the handler
\* changes no state.
C22_ApplySuggestions == [][handleApplySuggestions => Applied]_vars

\* a report that differs from the settings in all four values has been applied
C22_Witness ==
    /\ app.aiReport = null
    /\ app.guideText = <<Chars("guidance")>>
    /\ app.selectedVoice = "Kore"
    /\ app.vocalExpression = "Speech"
    /\ app.tone = "Standard"

----------------------------------------------------------------------------
(* balancedVoices, v1.8.1 *)

\* the names of the voice profiles, those of VOICES first
VoiceNames == <<"Kore", "Puck", "Charon", "Fenrir", "Zephyr", "Orus", "Leda">>

\* the lists of profiles: the names in this order, each Male or Female
VoiceLists ==
    UNION {[1..n -> {"Male", "Female"}] : n \in 0..MaxVoices}

Profiles(genders) ==
    [i \in DOMAIN genders |-> [name |-> VoiceNames[i], gender |-> genders[i]]]

IsMale(v) == v.gender = "Male"
IsFemale(v) == v.gender = "Female"

\* the loop that pushes femaleVoices[i] and then maleVoices[i], from i on
RECURSIVE reorderedVoices(_, _, _, _)
reorderedVoices(femaleVoices, maleVoices, i, minCount) ==
    IF i > minCount THEN <<>>
    ELSE <<femaleVoices[i], maleVoices[i]>>
             \o reorderedVoices(femaleVoices, maleVoices, i + 1, minCount)

\* the loop with the two pushes exchanged
RECURSIVE reorderedVoicesMaleFirst(_, _, _, _)
reorderedVoicesMaleFirst(femaleVoices, maleVoices, i, minCount) ==
    IF i > minCount THEN <<>>
    ELSE <<maleVoices[i], femaleVoices[i]>>
             \o reorderedVoicesMaleFirst(femaleVoices, maleVoices, i + 1, minCount)

Min(a, b) == IF a < b THEN a ELSE b

\* balancedVoices with the male voice of each pair first
balancedVoicesMaleFirst(voiceList) ==
    LET maleVoices == SelectSeq(voiceList, IsMale)
        femaleVoices == SelectSeq(voiceList, IsFemale)
        minCount == Min(Len(maleVoices), Len(femaleVoices))
        remainingVoices ==
            IF Len(maleVoices) > Len(femaleVoices)
            THEN SubSeq(maleVoices, minCount + 1, Len(maleVoices))
            ELSE SubSeq(femaleVoices, minCount + 1, Len(femaleVoices))
    IN  reorderedVoicesMaleFirst(femaleVoices, maleVoices, 1, minCount) \o remainingVoices

balancedVoices(voiceList) ==
    LET maleVoices == SelectSeq(voiceList, IsMale)
        femaleVoices == SelectSeq(voiceList, IsFemale)
        minCount == Min(Len(maleVoices), Len(femaleVoices))
        remainingVoices ==
            IF Len(maleVoices) > Len(femaleVoices)
            THEN SubSeq(maleVoices, minCount + 1, Len(maleVoices))
            ELSE SubSeq(femaleVoices, minCount + 1, Len(femaleVoices))
    IN  reorderedVoices(femaleVoices, maleVoices, 1, minCount) \o remainingVoices

\* the first render computes the list
ComputeBalancedVoices ==
    /\ balanced = Unset
    /\ balanced' = Ok(balancedVoices(VOICES))
    /\ UNCHANGED <<VOICES, wavVars, decVars, playVars, app, playReqs, ssmlReqs, timeouts,
                   clicks, svcVars>>

InitVoices ==
    /\ \E genders \in VoiceLists : VOICES = Profiles(genders)
    /\ balanced = Unset
    /\ app = App181Initial
    /\ playReqs = [h \in Calls |-> IdleRun]
    /\ ssmlReqs = [g \in SsmlRuns |-> IdleRun]
    /\ researchReqs = [r \in ResearchRuns |-> IdleRun]
    /\ detectReqs = [d \in DetectRuns |-> IdleRun]
    /\ timeouts = <<>>
    /\ clicks = 0
    /\ apiKey = TRUE
    /\ debounceTimeout = null
    /\ InitIdlePlay
    /\ InitIdleWav
    /\ InitIdleDec

NextVoices == ComputeBalancedVoices

SpecVoices == InitVoices /\ [][NextVoices]_vars

\* the place of a profile in a list that holds it
Place(voiceList, v) == CHOOSE i \in DOMAIN voiceList : voiceList[i] = v

\* the number of profiles in a list that satisfy a gender
Count(voiceList, gender) == Cardinality({i \in DOMAIN voiceList : voiceList[i].gender = gender})

\* C23: the balanced voice list is a permutation of VOICES (each voice
\* exactly once) whose first 2*min(#female, #male) entries alternate female,
\* male, each gender in its original relative order, followed by the
\* remaining voices of the larger gender in original order.
C23_BalancedVoices ==
    IsOk(balanced) =>
        LET b == balanced.val
            k == Min(Count(VOICES, "Female"), Count(VOICES, "Male"))
            larger == IF Count(VOICES, "Male") > Count(VOICES, "Female")
                      THEN "Male" ELSE "Female"
        IN  /\ Len(b) = Len(VOICES)
            /\ \A i \in DOMAIN VOICES :
                   Cardinality({j \in DOMAIN b : b[j] = VOICES[i]}) = 1
            /\ \A j \in 1..(2 * k) :
                   b[j].gender = IF j % 2 = 1 THEN "Female" ELSE "Male"
            /\ \A j \in (2 * k + 1)..Len(b) : b[j].gender = larger
            /\ \A p, q \in DOMAIN b :
                   p < q /\ b[p].gender = b[q].gender
                       => Place(VOICES, b[p]) < Place(VOICES, b[q])

\* the list of the five voices of VOICES has been balanced
C23_Witness ==
    /\ VOICES = Profiles(<<"Female", "Male", "Male", "Male", "Female">>)
    /\ IsOk(balanced)
    /\ [j \in DOMAIN balanced.val |-> balanced.val[j].name]
           = <<"Kore", "Puck", "Zephyr", "Charon", "Fenrir">>

----------------------------------------------------------------------------
(* Properties of the outputs of the v2.0.0 App, under SpecApp *)

\* textToPlay of handlePlayAudio, in the state a
textToPlay(a) == IF a.ssml # <<>> THEN a.ssml ELSE a.inputText

\* C24: in the v2.0.0 App, whenever the cached base64Audio is non-empty it is
\* the synthesis result for the current text to play (ssml, else inputText)
\* and the current selectedVoice, under every interleaving of an in-flight
\* generateSpeech response with user setting changes; replay and Export
\* Audio then never use audio generated for earlier settings.
C24_CachedAudioCurrent ==
    app.base64Audio # <<>> =>
        /\ textToPlay(app) # <<>>
        /\ app.base64Audio \in SpeechResults(textToPlay(app), app.selectedVoice)

\* C25: in the v2.0.0 App, whenever the displayed SSML is non-empty it was
\* generated from the current inputText, guideText, vocalExpression and tone:
\* a generateSSML response that arrives after the user changed one of these
\* settings never makes stale SSML visible.
C25_DisplayedSsmlCurrent ==
    app.ssml # <<>> =>
        app.ssml \in SsmlResults(app.inputText, app.guideText, app.vocalExpression, app.tone)

\* the error shown was set by the last call of handleError, whose timeout
\* is the last one pending; the one that fires is the first: it is the
\* timeout of an earlier error with another message
EarlierTimeoutClearsError ==
    /\ app.error # null
    /\ Len(timeouts) > 1
    /\ Head(timeouts) # app.error.text
    /\ timeouts' = Tail(timeouts)
    /\ app'.error = null

\* C26: an error message set by handleError is removed only by its own
\* auto-dismiss timeout, by the user dismissing it, or by a new operation
\* clearing it: the timeout scheduled for an earlier error never clears a
\* later, different error before that error's own duration has elapsed.
C26_OwnTimeoutOnly == [][~EarlierTimeoutClearsError]_vars

----------------------------------------------------------------------------
(* Properties of the settings *)

\* C27: in every reachable state of the App the selected voice, vocal
\* expression and tone are members of the offered option lists, also after
\* Apply Suggestions with any report returned by the research service.
C27_SettingsOffered ==
    /\ app.selectedVoice \in voices
    /\ app.vocalExpression \in vocalExpressions
    /\ app.tone \in tones

\* the v1.8.1 forms, which hold under SpecResearch181: handleAiResearch
\* shows a report only if its values are offered ones, and
\* handleApplySuggestions applies the four values of the report
SettingsOffered181 ==
    /\ C27_SettingsOffered
    /\ app.aiResearchReport # null => ValidReport(app.aiResearchReport)

ApplySuggestions181 ==
    [][handleApplySuggestions181 =>
          IF app.aiResearchReport = null
          THEN app' = app
          ELSE /\ app'.guideText = app.aiResearchReport.guidance
               /\ app'.selectedVoice = app.aiResearchReport.recommendedVoice
               /\ app'.vocalExpression = app.aiResearchReport.recommendedVocalExpression
               /\ app'.tone = app.aiResearchReport.recommendedTone
               /\ app'.aiResearchReport = null]_vars

----------------------------------------------------------------------------
(* Properties of the language detection, under SpecLanguage *)

\* no timer is pending and no detectLanguage call is awaited
Settled ==
    /\ debounceTimeout = null
    /\ \A d \in DetectRuns : detectReqs[d].at # "detectLanguage"

\* C28: debounced language detection converges to the latest input: once the
\* input text no longer changes and all detection requests have settled, the
\* language shown is the detection result for the current text, or "Unknown"
\* when the text is blank; a response for an earlier text, or one that
\* arrives after the text was cleared, never overwrites it.
C28_LatestInputWins ==
    Settled =>
        IF trim(app.inputText) = <<>>
        THEN app.language = "Unknown"
        ELSE app.language \in {LanguageOf(app.inputText), "Unknown"}

\* C29: detectLanguage never fails: for every input and every failure of the
\* service or of the client setup, a missing API key included, its promise
\* resolves to a language name or to "Unknown" and never rejects.
C29_DetectLanguageResolves ==
    \A d \in DetectRuns :
        detectReqs[d].at # "idle" => detectReqs[d].promise # "rejected"

====
